---- MODULE Spec2Model ----
(***************************************************************************)
(* A model of the natural-order comparator of package ansort: the          *)
(* tokenizers, the token and string comparators, the external sort-key     *)
(* encoder, the token cache with the adaptive CompareOptimized, and        *)
(* SortStrings.                                                            *)
(*                                                                         *)
(* A Go string is a sequence of bytes, modelled as a sequence of integers  *)
(* 0..255.  Runes are Unicode code points.  The value of an int is held as *)
(* its canonical decimal digits: the values that matter lie around 2^63,   *)
(* outside the 32-bit integers of TLC.                                     *)
(***************************************************************************)
EXTENDS Integers, Sequences, FiniteSets, TLC

VARIABLES
    a, b, c,            \* the strings handed to the operation called
    caseSensitive,      \* Config.CaseSensitive of the call
    maxNumericLength,   \* ExternalSortKeyConfig.MaxNumericLength of the call
    data,               \* the slice handed to SortStrings
    op,                 \* the operation that returned last
    ret,                \* what it returned
    globalCache,        \* optimization.go: var globalCache
    cacheHits,          \* optimization.go: var cacheHits
    cacheMisses,        \* optimization.go: var cacheMisses
    globalCacheDisabled,\* set by DisableCache / EnableCache
    sorterCache,        \* the TokenCache owned by a CachedSorter / PooledSorter
    procs,              \* the goroutines inside CompareOptimized: position and locals
    heap,               \* the backing arrays of the []Token slices, by address
    pool,               \* the slices a TokenPool holds
    mu,                 \* TokenCache.mu: the goroutines holding the RWMutex
    held                \* the []Token values the callers hold

vars == <<a, b, c, caseSensitive, maxNumericLength, data, op, ret,
          globalCache, cacheHits, cacheMisses, globalCacheDisabled, sorterCache,
          procs, heap, pool, mu, held>>

----------------------------------------------------------------------------
(* Bounds of the model.                                                    *)

\* Input strings are concatenations of at most MaxPieces pieces.
MaxPieces == 2
\* Length of the slices handed to the sorts.
MaxData == 3
\* Goroutines calling CompareOptimized at the same time.
NumProcs == 2
\* Largest capacity of the TokenCache objects built for the cache operations.
CacheCap == 2
\* Cached-path calls of CompareOptimized counted by cacheHits and cacheMisses.
MaxCalls == 2
\* Backing arrays allocated in a run of the cache and pool operations.
MaxArrays == 3
\* Calls of Get, Put, Size and Clear made by the goroutines sharing a cache.
MaxOps == 4

----------------------------------------------------------------------------
(* Strings, bytes and runes.                                               *)

Min(x, y) == IF x < y THEN x ELSE y

\* The three-way byte-wise comparison of two Go strings (operators <, >, ==),
\* from byte index i on.
RECURSIVE StrCmpFrom(_, _, _)
StrCmpFrom(x, y, i) ==
    IF i > Len(x) \/ i > Len(y)
    THEN (IF Len(x) < Len(y) THEN -1 ELSE IF Len(x) > Len(y) THEN 1 ELSE 0)
    ELSE IF x[i] = y[i] THEN StrCmpFrom(x, y, i + 1)
    ELSE IF x[i] < y[i] THEN -1 ELSE 1

StrCmp(x, y) == StrCmpFrom(x, y, 1)

IsCont(x) == x >= 128 /\ x <= 191

\* utf8.DecodeRuneInString at position i of s: <<rune, width>>.  A byte that
\* starts no valid encoding decodes to RuneError (U+FFFD) of width 1.
DecodeRuneAt(s, i) ==
    LET b0 == s[i]
        n  == Len(s) - i + 1
    IN  IF b0 < 128 THEN <<b0, 1>>
        ELSE IF b0 >= 194 /\ b0 <= 223 /\ n >= 2 /\ IsCont(s[i+1])
             THEN <<(b0 - 192) * 64 + (s[i+1] - 128), 2>>
        ELSE IF b0 >= 224 /\ b0 <= 239 /\ n >= 3 /\ IsCont(s[i+1]) /\ IsCont(s[i+2])
                /\ (b0 = 224 => s[i+1] >= 160) /\ (b0 = 237 => s[i+1] <= 159)
             THEN <<(b0 - 224) * 4096 + (s[i+1] - 128) * 64 + (s[i+2] - 128), 3>>
        ELSE IF b0 >= 240 /\ b0 <= 244 /\ n >= 4
                /\ IsCont(s[i+1]) /\ IsCont(s[i+2]) /\ IsCont(s[i+3])
                /\ (b0 = 240 => s[i+1] >= 144) /\ (b0 = 244 => s[i+1] <= 143)
             THEN <<(b0 - 240) * 262144 + (s[i+1] - 128) * 4096
                      + (s[i+2] - 128) * 64 + (s[i+3] - 128), 4>>
        ELSE <<65533, 1>>

RECURSIVE DecodeFrom(_, _)
DecodeFrom(s, i) ==
    IF i > Len(s) THEN <<>>
    ELSE LET d == DecodeRuneAt(s, i) IN <<d[1]>> \o DecodeFrom(s, i + d[2])

\* []rune(s)
Runes(s) == DecodeFrom(s, 1)

\* utf8.RuneCountInString(s)
RuneCount(s) == Len(Runes(s))

\* The UTF-8 encoding of one rune (utf8.EncodeRune); a surrogate or a value
\* above U+10FFFF encodes as RuneError.
EncodeRune(r) ==
    IF r < 128 THEN <<r>>
    ELSE IF r < 2048 THEN <<192 + (r \div 64), 128 + (r % 64)>>
    ELSE IF (r >= 55296 /\ r <= 57343) \/ r > 1114111 THEN <<239, 191, 189>>
    ELSE IF r < 65536
         THEN <<224 + (r \div 4096), 128 + ((r \div 64) % 64), 128 + (r % 64)>>
    ELSE <<240 + (r \div 262144), 128 + ((r \div 4096) % 64),
           128 + ((r \div 64) % 64), 128 + (r % 64)>>

RECURSIVE EncodeFrom(_, _)
EncodeFrom(rs, i) ==
    IF i > Len(rs) THEN <<>> ELSE EncodeRune(rs[i]) \o EncodeFrom(rs, i + 1)

\* string(runes)
RunesToString(rs) == EncodeFrom(rs, 1)

\* unicode.IsDigit: the decimal digits (category Nd).  Of the table the model
\* holds the ASCII digits, the Arabic-Indic digits U+0660..U+0669 and the
\* extended Arabic-Indic digits U+06F0..U+06F9.
IsDigit(r) ==
    \/ r >= 48 /\ r <= 57
    \/ r >= 1632 /\ r <= 1641
    \/ r >= 1776 /\ r <= 1785

\* The test '0' <= x && x <= '9' of the optimized tokenizers.
IsASCIIDigit(x) == x >= 48 /\ x <= 57

\* unicode.ToLower on the ranges the model holds: ASCII and Latin-1 capitals.
ToLowerRune(r) ==
    IF r >= 65 /\ r <= 90 THEN r + 32
    ELSE IF r >= 192 /\ r <= 222 /\ r # 215 THEN r + 32
    ELSE r

\* strings.ToLower: every rune mapped, invalid bytes re-encoded as RuneError
\* (an ASCII string takes a byte loop with the same result).
ToLower(s) ==
    LET rs == Runes(s)
    IN  RunesToString([i \in 1..Len(rs) |-> ToLowerRune(rs[i])])

----------------------------------------------------------------------------
(* Tokens and the tokenizer of ansort.go.                                  *)

AlphaToken == 0
NumericToken == 1

Token(t, v) == [Type |-> t, Value |-> v]

\* The inner loops `for i < len(runes) && unicode.IsDigit(runes[i]) { i++ }`
\* (want = TRUE) and `... && !unicode.IsDigit(runes[i])` (want = FALSE).
RECURSIVE RunEndUnicodeDigit(_, _, _)
RunEndUnicodeDigit(runes, i, want) ==
    IF i <= Len(runes) /\ IsDigit(runes[i]) = want
    THEN RunEndUnicodeDigit(runes, i + 1, want)
    ELSE i

\* The outer loop of parseString from rune index i on.
RECURSIVE parseStringLoop(_, _)
parseStringLoop(runes, i) ==
    IF i > Len(runes) THEN <<>>
    ELSE LET num == IsDigit(runes[i])
             j   == RunEndUnicodeDigit(runes, i, num)
         IN  <<Token(IF num THEN NumericToken ELSE AlphaToken,
                     RunesToString(SubSeq(runes, i, j - 1)))>>
             \o parseStringLoop(runes, j)

parseString(s) ==
    IF Len(s) = 0 THEN <<>> ELSE parseStringLoop(Runes(s), 1)

----------------------------------------------------------------------------
(* strconv.Atoi on a 64-bit build, and the comparison of two ints.         *)

\* math.MaxInt64 = 9223372036854775807, as decimal digits.
MaxInt64Digits ==
    <<57, 50, 50, 51, 51, 55, 50, 48, 51, 54, 56, 53, 52, 55, 55, 53, 56, 48, 55>>

RECURSIVE StripZeros(_)
StripZeros(s) ==
    IF Len(s) > 0 /\ s[1] = 48 THEN StripZeros(Tail(s)) ELSE s

\* The order of two naturals given by their digits without leading zeros.
NumCmp(x, y) ==
    IF Len(x) < Len(y) THEN -1
    ELSE IF Len(x) > Len(y) THEN 1
    ELSE StrCmp(x, y)

\* strconv.Atoi(s) for a string without sign: a syntax error when a byte is
\* no ASCII digit, a range error when the value exceeds MaxInt64.
Atoi(s) ==
    IF Len(s) = 0 \/ \E i \in 1..Len(s) : ~IsASCIIDigit(s[i])
    THEN [err |-> TRUE, num |-> <<>>]
    ELSE IF NumCmp(StripZeros(s), MaxInt64Digits) = 1
         THEN [err |-> TRUE, num |-> MaxInt64Digits]
         ELSE [err |-> FALSE, num |-> StripZeros(s)]

----------------------------------------------------------------------------
(* The token comparator and the string comparator of ansort.go.            *)

DefaultConfig == [CaseSensitive |-> TRUE]

\* buildConfig with the one option WithCaseSensitive(cs).
buildConfig(cs) == [DefaultConfig EXCEPT !.CaseSensitive = cs]

\* compareKinds answering -1 whatever the kinds.
compareKinds_AlwaysLess(ta, tb) == -1

\* compareKinds putting the alpha token first.
compareKinds_AlphaFirst(ta, tb) == IF ta.Type = NumericToken THEN 1 ELSE -1

\* Tokens of different types: numeric comes before alphabetic.
compareKinds(ta, tb) == IF ta.Type = NumericToken THEN -1 ELSE 1

\* Two numeric tokens: by value when both parse, else by text; on equal
\* values the shorter text first, then the text.
compareNumeric(ta, tb) ==
    LET aNum == Atoi(ta.Value)
        bNum == Atoi(tb.Value)
    IN  IF aNum.err \/ bNum.err
        THEN StrCmp(ta.Value, tb.Value)
        ELSE IF NumCmp(aNum.num, bNum.num) # 0
        THEN NumCmp(aNum.num, bNum.num)
        ELSE IF ta.Value # tb.Value
        THEN (IF Len(ta.Value) < Len(tb.Value) THEN -1
              ELSE IF Len(ta.Value) > Len(tb.Value) THEN 1
              ELSE StrCmp(ta.Value, tb.Value))
        ELSE 0

\* compareAlpha folding the case whatever the configuration.
compareAlpha_AlwaysFolded(ta, tb, config) == StrCmp(ToLower(ta.Value), ToLower(tb.Value))

\* Two alphabetic tokens: by text, lower-cased copies when case-insensitive.
compareAlpha(ta, tb, config) ==
    LET aValue == IF ~config.CaseSensitive THEN ToLower(ta.Value) ELSE ta.Value
        bValue == IF ~config.CaseSensitive THEN ToLower(tb.Value) ELSE tb.Value
    IN  StrCmp(aValue, bValue)

compareTokensWithConfig(ta, tb, config) ==
    IF ta.Type # tb.Type THEN compareKinds(ta, tb)
    ELSE IF ta.Type = NumericToken THEN compareNumeric(ta, tb)
    ELSE compareAlpha(ta, tb, config)

\* compareLengths without the length rule.
compareLengths_Ignored(tokensA, tokensB) == 0

\* After the loop: if all compared tokens are equal, the shorter sequence
\* comes first.
compareLengths(tokensA, tokensB) ==
    IF Len(tokensA) < Len(tokensB) THEN -1
    ELSE IF Len(tokensA) > Len(tokensB) THEN 1
    ELSE 0

\* The loop `for i := 0; i < minLen; i++` shared by every comparator, with
\* the length rule after it; i counts from 1.
RECURSIVE compareTokenLists(_, _, _, _)
compareTokenLists(tokensA, tokensB, config, i) ==
    IF i <= Min(Len(tokensA), Len(tokensB))
    THEN LET result == compareTokensWithConfig(tokensA[i], tokensB[i], config)
         IN  IF result # 0 THEN result
             ELSE compareTokenLists(tokensA, tokensB, config, i + 1)
    ELSE compareLengths(tokensA, tokensB)

Compare(s, t, cs) ==
    IF s = t THEN 0
    ELSE compareTokenLists(parseString(s), parseString(t), buildConfig(cs), 1)

----------------------------------------------------------------------------
(* The external sort key of ansort.go.                                     *)

DefaultExternalSortKeyConfig == [CaseSensitive |-> TRUE, MaxNumericLength |-> 10]

\* buildExternalSortKeyConfig with WithExternalCaseSensitive(cs) and
\* WithMaxNumericLength(n).
buildExternalSortKeyConfig(cs, n) ==
    [DefaultExternalSortKeyConfig EXCEPT !.CaseSensitive = cs, !.MaxNumericLength = n]

\* fmt.Sprintf("%0*s", maxLength, numStr) pads with '0' on the left to
\* maxLength runes; the guard before it counts bytes.
padNumericToken(numStr, maxLength) ==
    IF Len(numStr) >= maxLength THEN numStr
    ELSE LET k == maxLength - RuneCount(numStr)
         IN  [i \in 1..(IF k > 0 THEN k ELSE 0) |-> 48] \o numStr

RECURSIVE sortKeyLoop(_, _, _)
sortKeyLoop(tokens, config, i) ==
    IF i > Len(tokens) THEN <<>>
    ELSE (IF tokens[i].Type = NumericToken
          THEN padNumericToken(tokens[i].Value, config.MaxNumericLength)
          ELSE IF ~config.CaseSensitive THEN ToLower(tokens[i].Value)
          ELSE tokens[i].Value)
         \o sortKeyLoop(tokens, config, i + 1)

ToNaturalSortKey(input, cs, n) ==
    IF input = <<>> THEN <<>>
    ELSE sortKeyLoop(parseString(input), buildExternalSortKeyConfig(cs, n), 1)

\* An error value: nil, or a *ValidationError with its fields.
NoError == [nil |-> TRUE, Field |-> "", Message |-> ""]

ValidationError(field, message) == [nil |-> FALSE, Field |-> field, Message |-> message]

validateExternalSortKeyConfig(config) ==
    IF config.MaxNumericLength <= 0
    THEN ValidationError("MaxNumericLength", "must be greater than 0")
    ELSE IF config.MaxNumericLength > 50
    THEN ValidationError("MaxNumericLength",
                         "must be 50 or less to prevent excessive memory usage")
    ELSE NoError

\* ToNaturalSortKeyValidated(input, options): the key and the error.
ToNaturalSortKeyValidated(input, cs, n) ==
    IF input = <<>> THEN [key |-> <<>>, err |-> NoError]
    ELSE LET config == buildExternalSortKeyConfig(cs, n)
             err    == validateExternalSortKeyConfig(config)
         IN  IF ~err.nil THEN [key |-> <<>>, err |-> err]
             ELSE [key |-> sortKeyLoop(parseString(input), config, 1), err |-> NoError]

----------------------------------------------------------------------------
(* The tokenizers of optimization.go and pool.go.                          *)

isASCII(s) == \A i \in 1..Len(s) : s[i] < 128

\* The inner loops of parseStringASCII and parseStringUnicode: the end of
\* the run of ASCII digits (want = TRUE) or of other units (want = FALSE).
RECURSIVE RunEndASCIIDigit(_, _, _)
RunEndASCIIDigit(units, i, want) ==
    IF i <= Len(units) /\ IsASCIIDigit(units[i]) = want
    THEN RunEndASCIIDigit(units, i + 1, want)
    ELSE i

\* The outer loop of parseStringASCII, over the bytes of s.
RECURSIVE parseStringASCIILoop(_, _)
parseStringASCIILoop(s, i) ==
    IF i > Len(s) THEN <<>>
    ELSE LET num == IsASCIIDigit(s[i])
             j   == RunEndASCIIDigit(s, i, num)
         IN  <<Token(IF num THEN NumericToken ELSE AlphaToken, SubSeq(s, i, j - 1))>>
             \o parseStringASCIILoop(s, j)

parseStringASCII(s, tokens) == tokens \o parseStringASCIILoop(s, 1)

\* The outer loop of parseStringUnicode, over the runes of s.
RECURSIVE parseStringUnicodeLoop(_, _)
parseStringUnicodeLoop(runes, i) ==
    IF i > Len(runes) THEN <<>>
    ELSE LET num == IsASCIIDigit(runes[i])
             j   == RunEndASCIIDigit(runes, i, num)
         IN  <<Token(IF num THEN NumericToken ELSE AlphaToken,
                     RunesToString(SubSeq(runes, i, j - 1)))>>
             \o parseStringUnicodeLoop(runes, j)

\* parseStringUnicode emitting the whole string as one alpha token.
parseStringUnicode_OneAlpha(s, tokens) == tokens \o <<Token(AlphaToken, s)>>

parseStringUnicode(s, tokens) == tokens \o parseStringUnicodeLoop(Runes(s), 1)

parseStringOptimized(s) ==
    IF Len(s) = 0 THEN <<>>
    ELSE IF isASCII(s) THEN parseStringASCII(s, <<>>)
    ELSE parseStringUnicode(s, <<>>)

\* TokenPool.Get: a slice of the pool cut to length 0.
TokenPoolGet == <<>>

\* parseStringPooled: the tokens parsed into the pooled slice, copied.
parseStringPooled(s) ==
    IF Len(s) = 0 THEN <<>>
    ELSE IF isASCII(s) THEN parseStringASCII(s, TokenPoolGet)
    ELSE parseStringUnicode(s, TokenPoolGet)

----------------------------------------------------------------------------
(* TokenCache of optimization.go.  A []Token is nil or a sequence.         *)

NilSlice == [nil |-> TRUE, elems |-> <<>>]

Slice(tokens) == [nil |-> FALSE, elems |-> tokens]

\* PooledSorter.parseWithPool: nil for the empty string, else the tokens
\* parsed into the pooled slice, copied.
parseWithPool(s) ==
    IF Len(s) = 0 THEN NilSlice
    ELSE IF isASCII(s) THEN Slice(parseStringASCII(s, TokenPoolGet))
    ELSE Slice(parseStringUnicode(s, TokenPoolGet))

NewTokenCache(maxSize) ==
    [cache |-> <<>>, maxSize |-> IF maxSize <= 0 THEN 1000 ELSE maxSize]

\* Get returns a copy of the cached tokens, nil if s is not cached.
TokenCacheGet(tc, s) ==
    IF s \in DOMAIN tc.cache THEN Slice(tc.cache[s]) ELSE NilSlice

\* Put that never clears the cache.
TokenCachePut_NoEviction(tc, s, tokens) ==
    [tc EXCEPT !.cache = [k \in (DOMAIN tc.cache) \cup {s} |->
                             IF k = s THEN tokens.elems ELSE tc.cache[k]]]

\* Put that files the tokens under the lower-cased key.
TokenCachePut_FoldedKey(tc, s, tokens) ==
    LET kept == IF Cardinality(DOMAIN tc.cache) >= tc.maxSize THEN <<>> ELSE tc.cache
    IN  [tc EXCEPT !.cache = [k \in (DOMAIN kept) \cup {ToLower(s)} |->
                                 IF k = ToLower(s) THEN tokens.elems ELSE kept[k]]]

\* Put clears a full cache, then stores a copy of tokens under s.
TokenCachePut(tc, s, tokens) ==
    LET kept == IF Cardinality(DOMAIN tc.cache) >= tc.maxSize THEN <<>> ELSE tc.cache
    IN  [tc EXCEPT !.cache = [k \in (DOMAIN kept) \cup {s} |->
                                 IF k = s THEN tokens.elems ELSE kept[k]]]

TokenCacheSize(tc) == Cardinality(DOMAIN tc.cache)

TokenCacheClear(tc) == [tc EXCEPT !.cache = <<>>]

\* The lookup that stores nothing on a miss.
lookupOptimized_NoPut(tc, s) ==
    LET got == TokenCacheGet(tc, s)
    IN  IF got.nil
        THEN [tokens |-> parseStringOptimized(s), tc |-> tc, hit |-> FALSE]
        ELSE [tokens |-> got.elems, tc |-> tc, hit |-> TRUE]

\* `tokens := cache.Get(s); if tokens == nil { tokens = parse(s);
\* cache.Put(s, tokens) }` with parse = parseStringOptimized: the tokens, the
\* cache after it, and whether it was a hit.
lookupOptimized(tc, s) ==
    LET got == TokenCacheGet(tc, s)
    IN  IF got.nil
        THEN [tokens |-> parseStringOptimized(s),
              tc     |-> TokenCachePut(tc, s, Slice(parseStringOptimized(s))),
              hit    |-> FALSE]
        ELSE [tokens |-> got.elems, tc |-> tc, hit |-> TRUE]

----------------------------------------------------------------------------
(* []Token values with their storage.  A slice is nil or a header: the     *)
(* address of a backing array in the heap h, a length and a capacity.  Two *)
(* slices with the same address share their elements.                      *)

\* The zero value of Token, which make fills a new array with.
ZeroToken == Token(AlphaToken, <<>>)

NilHeader == [nil |-> TRUE, ptr |-> 0, len |-> 0, cap |-> 0]

Header(ptr, len, cap) == [nil |-> FALSE, ptr |-> ptr, len |-> len, cap |-> cap]

\* make([]Token, len, cap): a new array at the next address.
make(h, len, cap) ==
    [heap  |-> Append(h, [i \in 1..cap |-> ZeroToken]),
     slice |-> Header(Len(h) + 1, len, cap)]

\* The elements of a slice, those of nil being none.
Elems(h, sl) == IF sl.nil \/ sl.len = 0 THEN <<>> ELSE SubSeq(h[sl.ptr], 1, sl.len)

\* copy(dst, src): the first min(len(dst), len(src)) elements of src written
\* into the array of dst.
copy(h, dst, src) ==
    IF Min(dst.len, src.len) = 0 THEN h
    ELSE [h EXCEPT ![dst.ptr] =
             [i \in 1..Len(@) |-> IF i <= Min(dst.len, src.len) THEN h[src.ptr][i] ELSE @[i]]]

\* The slice itself in place of a copy of it.
copyTokens_Alias(h, tokens) == [heap |-> h, slice |-> tokens]

\* `result := make([]Token, len(tokens)); copy(result, tokens)`: the heap
\* after it and the new slice.
copyTokens(h, tokens) ==
    LET m == make(h, tokens.len, tokens.len)
    IN  [heap |-> copy(m.heap, m.slice, tokens), slice |-> m.slice]

\* A new slice holding the given tokens, as the tokenizers return one.
newTokens(h, tokens) ==
    [heap |-> Append(h, tokens), slice |-> Header(Len(h) + 1, Len(tokens), Len(tokens))]

\* append(sl, tok): written in place when the capacity allows, else into a new
\* array of twice the capacity that starts with the elements of sl.
append(h, sl, tok) ==
    IF sl.len < sl.cap
    THEN [heap  |-> [h EXCEPT ![sl.ptr][sl.len + 1] = tok],
          slice |-> [sl EXCEPT !.len = @ + 1]]
    ELSE LET m == make(h, sl.len + 1, IF sl.cap = 0 THEN 1 ELSE 2 * sl.cap)
         IN  [heap  |-> [copy(m.heap, m.slice, sl) EXCEPT ![m.slice.ptr][sl.len + 1] = tok],
              slice |-> m.slice]

\* The tokens toks[i..] appended to sl one after the other, as the loops of
\* parseStringASCII and parseStringUnicode append them.
RECURSIVE appendAll(_, _, _, _)
appendAll(h, sl, toks, i) ==
    IF i > Len(toks) THEN [heap |-> h, slice |-> sl]
    ELSE LET r == append(h, sl, toks[i])
         IN  appendAll(r.heap, r.slice, toks, i + 1)

\* tokens[:0]: the same array and capacity, length 0.
Cut(sl) == [sl EXCEPT !.len = 0]

\* Two slices share storage: both have an array, and it is the same one.
Shares(s1, s2) == ~s1.nil /\ ~s2.nil /\ s1.cap > 0 /\ s2.cap > 0 /\ s1.ptr = s2.ptr

\* The New of the sync.Pool of a TokenPool: make([]Token, 0, 8).
NewBuffer(h) == make(h, 0, 8)

\* TokenPool.Put: the pool keeps the slice if its capacity is at most 32.
TokenPoolPut(pl, tokens) == IF tokens.cap <= 32 THEN pl \cup {tokens} ELSE pl

\* TokenCache.Get on a cache whose entries are slices: the heap after it and
\* the slice returned.
Get(h, tc, s) ==
    IF s \in DOMAIN tc.cache THEN copyTokens(h, tc.cache[s])
    ELSE [heap |-> h, slice |-> NilHeader]

\* TokenCache.Put on a cache whose entries are slices: the heap and the cache
\* after it.
Put(h, tc, s, tokens) ==
    LET kept == IF Cardinality(DOMAIN tc.cache) >= tc.maxSize THEN <<>> ELSE tc.cache
        cached == copyTokens(h, tokens)
    IN  [heap |-> cached.heap,
         tc   |-> [tc EXCEPT !.cache = [k \in (DOMAIN kept) \cup {s} |->
                                          IF k = s THEN cached.slice ELSE kept[k]]]]

\* What Get returns for each key of the cache: the cache as values.
CacheView(h, tc) == [k \in DOMAIN tc.cache |-> Elems(h, tc.cache[k])]

----------------------------------------------------------------------------
(* CompareOptimized and its helpers.                                       *)

adaptiveCachingEnabled == TRUE

\* CompareLegacy names the original implementation: Compare.
CompareLegacy(s, t, cs) == Compare(s, t, cs)

compareWithoutCache(s, t, cs) ==
    compareTokenLists(parseStringOptimized(s), parseStringOptimized(t), buildConfig(cs), 1)

\* CompareOptimized without the test of globalCacheDisabled.
CompareOptimized_IgnoresDisabled(s, t, cs, tc, hits, misses, disabled) ==
    IF s = t
    THEN [result |-> 0, tc |-> tc, hits |-> hits, misses |-> misses, path |-> "same"]
    ELSE IF adaptiveCachingEnabled /\ Len(s) < 10 /\ Len(t) < 10
    THEN [result |-> compareWithoutCache(s, t, cs), tc |-> tc, hits |-> hits,
          misses |-> misses, path |-> "direct"]
    ELSE LET la == lookupOptimized(tc, s)
             lb == lookupOptimized(la.tc, t)
             nh == (IF la.hit THEN 1 ELSE 0) + (IF lb.hit THEN 1 ELSE 0)
         IN  [result |-> compareTokenLists(la.tokens, lb.tokens, buildConfig(cs), 1),
              tc     |-> lb.tc,
              hits   |-> hits + nh,
              misses |-> misses + (2 - nh),
              path   |-> "cached"]

\* CompareOptimized(s, t) called with the global cache tc, the counters hits
\* and misses and the flag disabled: the result and the globals after it.
CompareOptimized(s, t, cs, tc, hits, misses, disabled) ==
    IF s = t
    THEN [result |-> 0, tc |-> tc, hits |-> hits, misses |-> misses, path |-> "same"]
    ELSE IF disabled
    THEN [result |-> CompareLegacy(s, t, cs), tc |-> tc, hits |-> hits,
          misses |-> misses, path |-> "legacy"]
    ELSE IF adaptiveCachingEnabled /\ Len(s) < 10 /\ Len(t) < 10
    THEN [result |-> compareWithoutCache(s, t, cs), tc |-> tc, hits |-> hits,
          misses |-> misses, path |-> "direct"]
    ELSE LET la == lookupOptimized(tc, s)
             lb == lookupOptimized(la.tc, t)
             nh == (IF la.hit THEN 1 ELSE 0) + (IF lb.hit THEN 1 ELSE 0)
         IN  [result |-> compareTokenLists(la.tokens, lb.tokens, buildConfig(cs), 1),
              tc     |-> lb.tc,
              hits   |-> hits + nh,
              misses |-> misses + (2 - nh),
              path   |-> "cached"]

----------------------------------------------------------------------------
(* AlphanumericSorter and SortStrings.  sort.Sort sorts the short slices   *)
(* of the model by insertion, calling the sorter's Less and Swap.          *)

\* Less with the comparison reversed.
Less_Reversed(d, i, j, config) == Compare(d[i], d[j], config.CaseSensitive) > 0

Less(d, i, j, config) == Compare(d[i], d[j], config.CaseSensitive) < 0

Swap(d, i, j) == [d EXCEPT ![i] = d[j], ![j] = d[i]]

\* for j := i; j > a && data.Less(j, j-1); j-- { data.Swap(j, j-1) }
RECURSIVE insertionSortInner(_, _, _)
insertionSortInner(d, j, config) ==
    IF j > 1 /\ Less(d, j, j - 1, config)
    THEN insertionSortInner(Swap(d, j, j - 1), j - 1, config)
    ELSE d

\* for i := a + 1; i < b; i++ { ... }
RECURSIVE insertionSort(_, _, _)
insertionSort(d, i, config) ==
    IF i > Len(d) THEN d
    ELSE insertionSort(insertionSortInner(d, i, config), i + 1, config)

sortSort(d, config) == IF Len(d) <= 1 THEN d ELSE insertionSort(d, 2, config)

\* validateConfig accepts every configuration.
validateConfig(config) == TRUE

\* The slice after SortStrings(d, options) with case sensitivity cs.
SortStringsOf(d, cs) ==
    IF d.nil THEN d
    ELSE IF ~validateConfig(buildConfig(cs)) THEN d
    ELSE Slice(sortSort(d.elems, buildConfig(cs)))

\* validateSlice accepting the nil slice.
validateSlice_AcceptsNil(d, operationName) == NoError

validateSlice(d, operationName) ==
    IF d.nil
    THEN ValidationError("data", <<"slice cannot be nil for ", operationName>>)
    ELSE NoError

\* SortStringsValidated(d, options): the slice after the call and the error.
SortStringsValidatedOf(d, cs) ==
    LET err == validateSlice(d, "SortStringsValidated")
    IN  IF ~err.nil THEN [data |-> d, err |-> err]
        ELSE IF ~validateConfig(buildConfig(cs))
        THEN [data |-> d, err |-> ValidationError("config", "")]
        ELSE [data |-> Slice(sortSort(d.elems, buildConfig(cs))), err |-> NoError]

\* A *AlphanumericSorter: nil, or a sorter holding the slice and the config.
NilSorter == [nil |-> TRUE, data |-> NilSlice, config |-> DefaultConfig]

NewSorter(d, cs) == [nil |-> FALSE, data |-> d, config |-> buildConfig(cs)]

NewSorterValidated(d, cs) ==
    LET err == validateSlice(d, "NewSorterValidated")
    IN  IF ~err.nil THEN [sorter |-> NilSorter, err |-> err]
        ELSE IF ~validateConfig(buildConfig(cs))
        THEN [sorter |-> NilSorter, err |-> ValidationError("config", "")]
        ELSE [sorter |-> [nil |-> FALSE, data |-> d, config |-> buildConfig(cs)],
              err |-> NoError]

\* AlphanumericSorter.Len: len(s.data), 0 for the nil slice.
SorterLen(sorter) == Len(sorter.data.elems)

----------------------------------------------------------------------------
(* CachedSorter and SortStringsOptimized of optimization.go.               *)

\* CachedSorter.compareWithCache(s, t) on the sorter's cache tc: the result
\* and the cache after it.
compareWithCache(tc, s, t, config) ==
    IF s = t THEN [result |-> 0, tc |-> tc]
    ELSE LET la == lookupOptimized(tc, s)
             lb == lookupOptimized(la.tc, t)
         IN  [result |-> compareTokenLists(la.tokens, lb.tokens, config, 1),
              tc     |-> lb.tc]

\* sort.Sort on a CachedSorter: the insertion sort with Less =
\* compareWithCache(data[i], data[j]) < 0, the cache carried along.
RECURSIVE cachedInsertionSortInner(_, _, _)
cachedInsertionSortInner(st, j, config) ==
    IF j > 1
    THEN LET r == compareWithCache(st.tc, st.d[j], st.d[j - 1], config)
         IN  IF r.result < 0
             THEN cachedInsertionSortInner([d |-> Swap(st.d, j, j - 1), tc |-> r.tc],
                                           j - 1, config)
             ELSE [d |-> st.d, tc |-> r.tc]
    ELSE st

RECURSIVE cachedInsertionSort(_, _, _)
cachedInsertionSort(st, i, config) ==
    IF i > Len(st.d) THEN st
    ELSE cachedInsertionSort(cachedInsertionSortInner(st, i, config), i + 1, config)

\* NewCachedSorter(d, options) followed by sort.Sort(sorter): the slice and the
\* sorter's own cache afterwards.
sortCachedSorter(d, cs) ==
    IF Len(d) <= 1 THEN [d |-> d, tc |-> NewTokenCache(1000)]
    ELSE cachedInsertionSort([d |-> d, tc |-> NewTokenCache(1000)], 2, buildConfig(cs))

\* The number of strings among the first sampleSize that repeat an earlier one.
duplicateCount(d, sampleSize) ==
    Cardinality({i \in 1..sampleSize : \E k \in 1..(i - 1) : d[k] = d[i]})

RECURSIVE totalLength(_, _)
totalLength(d, sampleSize) ==
    IF sampleSize = 0 THEN 0
    ELSE totalLength(d, sampleSize - 1) + Len(d[sampleSize])

\* A call that returns v, and a call that ends in a run-time panic.
Returns(v) == [panic |-> FALSE, value |-> v]

Panics == [panic |-> TRUE, value |-> FALSE]

\* shouldUseCaching.  float64(duplicateCount) / float64(sampleSize) > 0.2 is
\* 5 * duplicateCount > sampleSize (the quotient of two small integers is
\* rounded as the literal 0.2 is, and 0/0 is NaN, which exceeds nothing);
\* totalLength / sampleSize is the integer division, which panics on a zero
\* divisor.
shouldUseCaching(d) ==
    IF Len(d) < 300
    THEN LET sampleSize == IF Len(d) > 50 THEN 50 ELSE Len(d)
         IN  IF sampleSize # 0 /\ 5 * duplicateCount(d, sampleSize) > sampleSize
             THEN Returns(TRUE)
             ELSE IF sampleSize = 0 THEN Panics
             ELSE Returns(totalLength(d, sampleSize) \div sampleSize > 50)
    ELSE Returns(TRUE)

\* SortStringsLegacy names the original implementation: SortStrings.
SortStringsLegacy(d, cs) == SortStringsOf(d, cs)

\* SortStringsOptimized without the return for batches of at most one string.
SortStringsOptimizedOf_NoShortReturn(d, cs, disabled) ==
    IF disabled
    THEN [data |-> SortStringsLegacy(d, cs), panic |-> FALSE, sampled |-> -1]
    ELSE LET use == shouldUseCaching(d.elems)
         IN  IF use.panic THEN [data |-> d, panic |-> TRUE, sampled |-> Len(d.elems)]
             ELSE IF use.value
             THEN [data |-> Slice(sortCachedSorter(d.elems, cs).d), panic |-> FALSE,
                   sampled |-> Len(d.elems)]
             ELSE [data |-> SortStringsLegacy(d, cs), panic |-> FALSE,
                   sampled |-> Len(d.elems)]

\* SortStringsOptimized(d, options): the slice after it, whether it panicked,
\* and the length shouldUseCaching was called with (-1 when it was not
\* called); the global cache and the counters are not used.
SortStringsOptimizedOf(d, cs, disabled) ==
    IF Len(d.elems) <= 1 THEN [data |-> d, panic |-> FALSE, sampled |-> -1]
    ELSE IF disabled
    THEN [data |-> SortStringsLegacy(d, cs), panic |-> FALSE, sampled |-> -1]
    ELSE LET use == shouldUseCaching(d.elems)
         IN  IF use.panic THEN [data |-> d, panic |-> TRUE, sampled |-> Len(d.elems)]
             ELSE IF use.value
             THEN [data |-> Slice(sortCachedSorter(d.elems, cs).d), panic |-> FALSE,
                   sampled |-> Len(d.elems)]
             ELSE [data |-> SortStringsLegacy(d, cs), panic |-> FALSE,
                   sampled |-> Len(d.elems)]

----------------------------------------------------------------------------
(* The inputs of the model.                                                *)

\* A digit run above MaxInt64: 10000000000000000000 (10^19, twenty digits).
BigDigits == <<49>> \o [i \in 1..19 |-> 48]

\* The pieces input strings are built from: ".", "0", "1", "A", "a", the
\* Arabic-Indic digit three U+0663 (two bytes) and the digit run BigDigits.
Pieces ==
    {<<46>>, <<48>>, <<49>>, <<65>>, <<97>>, <<217, 163>>, BigDigits}

RECURSIVE StringsUpTo(_)
StringsUpTo(n) ==
    IF n = 0 THEN {<<>>}
    ELSE LET S == StringsUpTo(n - 1)
         IN  S \cup {s \o p : s \in S, p \in Pieces}

Strings == StringsUpTo(MaxPieces)

\* Pad widths handed to WithMaxNumericLength: the smallest, a small one, the
\* default, and one above the length of BigDigits.
PadWidths == {1, 3, 10, 21}

----------------------------------------------------------------------------
(* Spec: Compare applied to a pair of strings.                             *)

\* The goroutines that call CompareOptimized concurrently.
Procs == 1..NumProcs

\* A goroutine outside CompareOptimized, having made no call.
IdleProc ==
    [pc |-> "idle", x |-> <<>>, y |-> <<>>, arg |-> 1, hit |-> FALSE, reg |-> 0,
     tokensA |-> <<>>, tokensB |-> <<>>, result |-> 0, calls |-> 0]

IdleProcs == [p \in Procs |-> IdleProc]

\* The calls entered so far, over all goroutines.
RECURSIVE CallsUpTo(_)
CallsUpTo(p) == IF p = 0 THEN 0 ELSE CallsUpTo(p - 1) + procs[p].calls

TotalCalls == CallsUpTo(NumProcs)

\* No []Token allocated, an empty pool, an unlocked mutex, no slice held.
MemoryIdle ==
    /\ heap = <<>>
    /\ pool = {}
    /\ mu = [readers |-> {}, writer |-> 0]
    /\ held = {}

\* The cache of a sorter before any sorter is constructed.
NoCache == [cache |-> <<>>, maxSize |-> 0]

CacheIdle ==
    /\ globalCache = NewTokenCache(2000)
    /\ cacheHits = 0
    /\ cacheMisses = 0
    /\ globalCacheDisabled = FALSE
    /\ sorterCache = NoCache
    /\ procs = IdleProcs
    /\ MemoryIdle

CacheUnchanged ==
    UNCHANGED <<globalCache, cacheHits, cacheMisses, globalCacheDisabled, sorterCache,
                   procs, heap, pool, mu, held>>

PairInit(S) ==
    /\ a \in S
    /\ b \in S
    /\ c = <<>>
    /\ caseSensitive \in BOOLEAN
    /\ maxNumericLength = DefaultExternalSortKeyConfig.MaxNumericLength
    /\ data = NilSlice
    /\ op = "start"
    /\ ret = [none |-> TRUE]
    /\ CacheIdle

Init == PairInit(Strings)

\* Compare(a, b), Compare(b, a) and Compare(a, a) under one configuration;
\* ret also keeps the tokens parseString gives for a and for b.
CallCompare ==
    /\ op = "start"
    /\ op' = "Compare"
    /\ ret' = [ab |-> Compare(a, b, caseSensitive),
               ba |-> Compare(b, a, caseSensitive),
               aa |-> Compare(a, a, caseSensitive),
               tokensA |-> parseString(a),
               tokensB |-> parseString(b)]
    /\ UNCHANGED <<a, b, c, caseSensitive, maxNumericLength, data>>
    /\ CacheUnchanged

Next == CallCompare

Spec == Init /\ [][Next]_vars

----------------------------------------------------------------------------
(* SpecEquality: Compare applied to a pair of strings that differ in       *)
(* letter case, in leading zeros, or in bytes that are not valid UTF-8.    *)

\* "", "a", "A", "1", "01", "a1", "a01", U+0663, U+FFFD, and the strings that
\* are not valid UTF-8: the byte 0xFF, the lead byte 0xD9, "a" 0xFF.
EqualityStrings ==
    {<<>>, <<97>>, <<65>>, <<49>>, <<48, 49>>, <<97, 49>>, <<97, 48, 49>>, <<217, 163>>,
     <<239, 191, 189>>, <<255>>, <<217>>, <<97, 255>>}

InitEquality == PairInit(EqualityStrings)

SpecEquality == InitEquality /\ [][Next]_vars

----------------------------------------------------------------------------
(* SpecCache: calls of CompareOptimized between the administration of the  *)
(* global cache.                                                           *)

\* "", "a", U+0663, 10^19 and "a" 10^19: strings on both sides of
\* the ten-byte threshold of CompareOptimized.
CacheStrings ==
    {<<>>, <<97>>, <<217, 163>>, BigDigits, <<97>> \o BigDigits}

InitCache == PairInit(CacheStrings)

CallCompareOptimized ==
    /\ cacheHits + cacheMisses < 2 * MaxCalls
    /\ \E s \in CacheStrings, t \in CacheStrings :
          \E r \in {CompareOptimized(s, t, caseSensitive, globalCache,
                                     cacheHits, cacheMisses, globalCacheDisabled)} :
              /\ a' = s
              /\ b' = t
              /\ op' = "CompareOptimized"
              /\ ret' = [result |-> r.result, path |-> r.path]
              /\ globalCache' = r.tc
              /\ cacheHits' = r.hits
              /\ cacheMisses' = r.misses
    /\ UNCHANGED <<c, caseSensitive, maxNumericLength, data, globalCacheDisabled, sorterCache,
                   procs, heap, pool, mu, held>>

ClearGlobalCache ==
    /\ globalCache' = TokenCacheClear(globalCache)
    /\ op' = "ClearGlobalCache"
    /\ ret' = [none |-> TRUE]
    /\ UNCHANGED <<a, b, c, caseSensitive, maxNumericLength, data, cacheHits,
                   cacheMisses, globalCacheDisabled, sorterCache,
                   procs, heap, pool, mu, held>>

ResetCacheStats ==
    /\ cacheHits' = 0
    /\ cacheMisses' = 0
    /\ op' = "ResetCacheStats"
    /\ ret' = [none |-> TRUE]
    /\ UNCHANGED <<a, b, c, caseSensitive, maxNumericLength, data, globalCache,
                   globalCacheDisabled, sorterCache,
                   procs, heap, pool, mu, held>>

DisableCache ==
    /\ globalCacheDisabled' = TRUE
    /\ op' = "DisableCache"
    /\ ret' = [none |-> TRUE]
    /\ UNCHANGED <<a, b, c, caseSensitive, maxNumericLength, data, globalCache,
                   cacheHits, cacheMisses, sorterCache,
                   procs, heap, pool, mu, held>>

EnableCache ==
    /\ globalCacheDisabled' = FALSE
    /\ op' = "EnableCache"
    /\ ret' = [none |-> TRUE]
    /\ UNCHANGED <<a, b, c, caseSensitive, maxNumericLength, data, globalCache,
                   cacheHits, cacheMisses, sorterCache,
                   procs, heap, pool, mu, held>>

NextCache ==
    \/ CallCompareOptimized
    \/ ClearGlobalCache
    \/ ResetCacheStats
    \/ DisableCache
    \/ EnableCache

SpecCache == InitCache /\ [][NextCache]_vars

----------------------------------------------------------------------------
(* SpecAdaptive: CompareOptimized and SortStringsOptimized called one      *)
(* after the other while the global cache is disabled, enabled, resized    *)
(* and cleared.  ret keeps the cache and the counters as the call found     *)
(* them.                                                                   *)

\* "", "a", "0123456789", and U+0663 five times: five characters, ten bytes.
AdaptiveStrings ==
    {<<>>, <<97>>, <<48, 49, 50, 51, 52, 53, 54, 55, 56, 57>>,
     <<217, 163, 217, 163, 217, 163, 217, 163, 217, 163>>}

\* The batches handed to SortStringsOptimized: nil, and up to MaxData strings,
\* each "a" or "0123456789".
RECURSIVE AdaptiveBatches(_)
AdaptiveBatches(n) ==
    IF n = 0 THEN {<<>>}
    ELSE AdaptiveBatches(n - 1) \cup
         {Append(d, s) : d \in {e \in AdaptiveBatches(n - 1) : Len(e) = n - 1},
                         s \in {<<97>>, <<48, 49, 50, 51, 52, 53, 54, 55, 56, 57>>}}

InitAdaptive ==
    /\ a = <<>>
    /\ b = <<>>
    /\ c = <<>>
    /\ caseSensitive = TRUE
    /\ maxNumericLength = DefaultExternalSortKeyConfig.MaxNumericLength
    /\ data = NilSlice
    /\ op = "start"
    /\ ret = [none |-> TRUE]
    /\ CacheIdle

\* a, b and data after a call that takes no string and no slice.
NoArguments ==
    /\ a' = <<>>
    /\ b' = <<>>
    /\ data' = NilSlice

\* The global cache and the counters as a call finds them.
Globals ==
    [cache |-> globalCache, hits |-> cacheHits, misses |-> cacheMisses,
     disabled |-> globalCacheDisabled]

AdaptiveCompareOptimized ==
    /\ cacheHits + cacheMisses < 2 * MaxCalls
    /\ \E s \in AdaptiveStrings, t \in AdaptiveStrings :
          \E r \in {CompareOptimized(s, t, caseSensitive, globalCache,
                                     cacheHits, cacheMisses, globalCacheDisabled)} :
              /\ a' = s
              /\ b' = t
              /\ data' = NilSlice
              /\ op' = "CompareOptimized"
              /\ ret' = [result |-> r.result, path |-> r.path, before |-> Globals]
              /\ globalCache' = r.tc
              /\ cacheHits' = r.hits
              /\ cacheMisses' = r.misses
    /\ UNCHANGED <<c, caseSensitive, maxNumericLength, globalCacheDisabled,
                   sorterCache, procs, heap, pool, mu, held>>

\* SortStringsOptimized(d): it sorts with the legacy sort or with a
\* CachedSorter, whose cache is its own.
AdaptiveSortStringsOptimized ==
    /\ \E d \in {NilSlice} \cup {Slice(e) : e \in AdaptiveBatches(MaxData)} :
          \E r \in {SortStringsOptimizedOf(d, caseSensitive, globalCacheDisabled)} :
              /\ data' = r.data
              /\ ret' = [input |-> d, panic |-> r.panic, sampled |-> r.sampled,
                         before |-> Globals]
    /\ op' = "SortStringsOptimized"
    /\ a' = <<>>
    /\ b' = <<>>
    /\ UNCHANGED <<c, caseSensitive, maxNumericLength, globalCache, cacheHits,
                   cacheMisses, globalCacheDisabled, sorterCache, procs, heap, pool,
                   mu, held>>

\* ConfigureCacheSize(size): the global cache becomes a new cache of that
\* capacity.
ConfigureCacheSize ==
    /\ \E size \in 1..CacheCap : globalCache' = NewTokenCache(size)
    /\ op' = "ConfigureCacheSize"
    /\ ret' = [before |-> Globals]
    /\ NoArguments
    /\ UNCHANGED <<c, caseSensitive, maxNumericLength, cacheHits,
                   cacheMisses, globalCacheDisabled, sorterCache, procs, heap, pool,
                   mu, held>>

AdaptiveDisableCache ==
    /\ globalCacheDisabled' = TRUE
    /\ op' = "DisableCache"
    /\ ret' = [before |-> Globals]
    /\ NoArguments
    /\ UNCHANGED <<c, caseSensitive, maxNumericLength, globalCache,
                   cacheHits, cacheMisses, sorterCache, procs, heap, pool, mu, held>>

AdaptiveEnableCache ==
    /\ globalCacheDisabled' = FALSE
    /\ op' = "EnableCache"
    /\ ret' = [before |-> Globals]
    /\ NoArguments
    /\ UNCHANGED <<c, caseSensitive, maxNumericLength, globalCache,
                   cacheHits, cacheMisses, sorterCache, procs, heap, pool, mu, held>>

NextAdaptive ==
    \/ AdaptiveCompareOptimized
    \/ AdaptiveSortStringsOptimized
    \/ ConfigureCacheSize
    \/ AdaptiveDisableCache
    \/ AdaptiveEnableCache

SpecAdaptive == InitAdaptive /\ [][NextAdaptive]_vars

----------------------------------------------------------------------------
(* SpecSort: SortStrings applied to a slice.                               *)

\* "1", "01", "0" 10^19, "a", "A", U+0663.
SortInputs ==
    {<<49>>, <<48, 49>>, <<48>> \o BigDigits, <<97>>, <<65>>, <<217, 163>>}

RECURSIVE SlicesUpTo(_)
SlicesUpTo(n) ==
    IF n = 0 THEN {<<>>}
    ELSE SlicesUpTo(n - 1) \cup
         {Append(d, s) : d \in {e \in SlicesUpTo(n - 1) : Len(e) = n - 1}, s \in SortInputs}

InitSort ==
    /\ a = <<>>
    /\ b = <<>>
    /\ c = <<>>
    /\ caseSensitive \in BOOLEAN
    /\ maxNumericLength = DefaultExternalSortKeyConfig.MaxNumericLength
    /\ data \in {NilSlice} \cup {Slice(d) : d \in SlicesUpTo(MaxData)}
    /\ op = "start"
    /\ ret = [none |-> TRUE]
    /\ CacheIdle

\* SortStrings(data) under one configuration; ret keeps the slice as it was.
SortStrings ==
    /\ op = "start"
    /\ op' = "SortStrings"
    /\ ret' = [before |-> data]
    /\ data' = SortStringsOf(data, caseSensitive)
    /\ UNCHANGED <<a, b, c, caseSensitive, maxNumericLength>>
    /\ CacheUnchanged

\* SortStringsValidated(data) under one configuration.
SortStringsValidated ==
    /\ op = "start"
    /\ op' = "SortStringsValidated"
    /\ \E r \in {SortStringsValidatedOf(data, caseSensitive)} :
          /\ ret' = [before |-> data, err |-> r.err]
          /\ data' = r.data
    /\ UNCHANGED <<a, b, c, caseSensitive, maxNumericLength>>
    /\ CacheUnchanged

\* NewSorter(data) under one configuration; ret holds the sorter.
CallNewSorter ==
    /\ op = "start"
    /\ op' = "NewSorter"
    /\ ret' = [before |-> data, sorter |-> NewSorter(data, caseSensitive),
               len |-> SorterLen(NewSorter(data, caseSensitive))]
    /\ UNCHANGED <<a, b, c, caseSensitive, maxNumericLength, data>>
    /\ CacheUnchanged

\* NewSorterValidated(data) under one configuration.
CallNewSorterValidated ==
    /\ op = "start"
    /\ op' = "NewSorterValidated"
    /\ \E r \in {NewSorterValidated(data, caseSensitive)} :
          ret' = [before |-> data, sorter |-> r.sorter, err |-> r.err]
    /\ UNCHANGED <<a, b, c, caseSensitive, maxNumericLength, data>>
    /\ CacheUnchanged

\* SortStringsOptimized(data) under one configuration.
SortStringsOptimized ==
    /\ op = "start"
    /\ op' = "SortStringsOptimized"
    /\ \E r \in {SortStringsOptimizedOf(data, caseSensitive, globalCacheDisabled)} :
          /\ ret' = [before |-> data, panic |-> r.panic, sampled |-> r.sampled]
          /\ data' = r.data
    /\ UNCHANGED <<a, b, c, caseSensitive, maxNumericLength>>
    /\ CacheUnchanged

NextSort ==
    \/ SortStrings
    \/ SortStringsOptimized
    \/ SortStringsValidated
    \/ CallNewSorter
    \/ CallNewSorterValidated

SpecSort == InitSort /\ [][NextSort]_vars

----------------------------------------------------------------------------
(* SpecSelect: shouldUseCaching applied to a batch.                        *)

\* The string of n bytes x.
Rep(x, n) == [i \in 1..n |-> x]

\* "a", "b", and strings of 50, 51 and 52 bytes.
SelectStrings == {<<97>>, <<98>>, Rep(120, 50), Rep(121, 51), Rep(122, 52)}

\* n different strings of two letters.
Distinct(n) == [i \in 1..n |-> <<97 + (i \div 26), 97 + (i % 26)>>]

\* The batches around the thresholds of shouldUseCaching: 300 and 299
\* different short strings; 50 different short strings followed by 30 copies of
\* one of them, or by 60 strings of 120 bytes; and 50 strings of which 11, or
\* 10, repeat an earlier one.
LargeBatches ==
    {Distinct(300),
     Distinct(299),
     Distinct(50) \o [i \in 1..30 |-> Distinct(1)[1]],
     Distinct(50) \o [i \in 1..60 |-> Rep(122, 120)],
     Distinct(39) \o [i \in 1..11 |-> Distinct(1)[1]],
     Distinct(40) \o [i \in 1..10 |-> Distinct(1)[1]]}

RECURSIVE BatchesUpTo(_)
BatchesUpTo(n) ==
    IF n = 0 THEN {<<>>}
    ELSE BatchesUpTo(n - 1) \cup
         {Append(d, s) : d \in {e \in BatchesUpTo(n - 1) : Len(e) = n - 1},
                         s \in SelectStrings}

InitSelect ==
    /\ a = <<>>
    /\ b = <<>>
    /\ c = <<>>
    /\ caseSensitive = TRUE
    /\ maxNumericLength = DefaultExternalSortKeyConfig.MaxNumericLength
    /\ data \in {Slice(d) : d \in (BatchesUpTo(MaxData) \ {<<>>}) \cup LargeBatches}
    /\ op = "start"
    /\ ret = [none |-> TRUE]
    /\ CacheIdle

\* shouldUseCaching(data).
CallShouldUseCaching ==
    /\ op = "start"
    /\ op' = "shouldUseCaching"
    /\ ret' = [use |-> shouldUseCaching(data.elems)]
    /\ UNCHANGED <<a, b, c, caseSensitive, maxNumericLength, data>>
    /\ CacheUnchanged

NextSelect == CallShouldUseCaching

SpecSelect == InitSelect /\ [][NextSelect]_vars

----------------------------------------------------------------------------
(* SpecTokens: compareTokensWithConfig applied to a pair of tokens.        *)

\* The strings that are one token: the texts of the tokens of the inputs.
TokenTexts == {s \in Strings : Len(parseString(s)) = 1}

InitTokens == PairInit(TokenTexts)

\* compareTokensWithConfig on the token of a and the token of b.
CallCompareTokens ==
    /\ op = "start"
    /\ op' = "compareTokens"
    /\ LET ta == parseString(a)[1]
           tb == parseString(b)[1]
       IN  ret' = [ta |-> ta, tb |-> tb,
                   ab |-> compareTokensWithConfig(ta, tb, buildConfig(caseSensitive)),
                   ba |-> compareTokensWithConfig(tb, ta, buildConfig(caseSensitive))]
    /\ UNCHANGED <<a, b, c, caseSensitive, maxNumericLength, data>>
    /\ CacheUnchanged

NextTokens == CallCompareTokens

SpecTokens == InitTokens /\ [][NextTokens]_vars

----------------------------------------------------------------------------
(* SpecKey: ToNaturalSortKey applied to a pair of strings.                 *)

\* ToNaturalSortKey(a) and ToNaturalSortKey(b) under one configuration,
\* beside Compare(a, b) under the same case sensitivity.
CallToNaturalSortKey ==
    /\ op = "start"
    /\ op' = "ToNaturalSortKey"
    /\ \E n \in PadWidths :
          /\ maxNumericLength' = n
          /\ ret' = [ka |-> ToNaturalSortKey(a, caseSensitive, n),
                     kb |-> ToNaturalSortKey(b, caseSensitive, n),
                     ab |-> Compare(a, b, caseSensitive)]
    /\ UNCHANGED <<a, b, c, caseSensitive, data>>
    /\ CacheUnchanged

NextKey == CallToNaturalSortKey

SpecKey == Init /\ [][NextKey]_vars

----------------------------------------------------------------------------
(* SpecKeyValidated: ToNaturalSortKeyValidated applied to a string under   *)
(* pad widths inside and outside 1..50.                                    *)

ValidatedWidths == {-1, 0, 1, 10, 50, 51}

InitKeyValidated ==
    /\ a \in Strings
    /\ b = <<>>
    /\ c = <<>>
    /\ caseSensitive \in BOOLEAN
    /\ maxNumericLength = DefaultExternalSortKeyConfig.MaxNumericLength
    /\ data = NilSlice
    /\ op = "start"
    /\ ret = [none |-> TRUE]
    /\ CacheIdle

CallToNaturalSortKeyValidated ==
    /\ op = "start"
    /\ op' = "ToNaturalSortKeyValidated"
    /\ \E n \in ValidatedWidths :
          /\ maxNumericLength' = n
          /\ ret' = ToNaturalSortKeyValidated(a, caseSensitive, n)
    /\ UNCHANGED <<a, b, c, caseSensitive, data>>
    /\ CacheUnchanged

NextKeyValidated == CallToNaturalSortKeyValidated

SpecKeyValidated == InitKeyValidated /\ [][NextKeyValidated]_vars

----------------------------------------------------------------------------
(* SpecTokenize: every tokenizer applied to one string.                    *)

\* The input strings, and strings that are not valid UTF-8: the byte 0xFF
\* alone, after "a" and before "1", and a lead byte 0xD9 without its
\* continuation.
TokenizeStrings ==
    Strings \cup {<<255>>, <<97, 255>>, <<255, 49>>, <<217>>}

InitTokenize ==
    /\ a \in TokenizeStrings
    /\ b = <<>>
    /\ c = <<>>
    /\ caseSensitive \in BOOLEAN
    /\ maxNumericLength = DefaultExternalSortKeyConfig.MaxNumericLength
    /\ data = NilSlice
    /\ op = "start"
    /\ ret = [none |-> TRUE]
    /\ CacheIdle

\* parseString, parseStringOptimized, parseStringPooled, parseStringASCII and
\* parseStringUnicode on the string a.
CallTokenizers ==
    /\ op = "start"
    /\ op' = "tokenize"
    /\ ret' = [legacy    |-> parseString(a),
               optimized |-> parseStringOptimized(a),
               pooled    |-> parseStringPooled(a),
               ascii     |-> parseStringASCII(a, <<>>),
               unicode   |-> parseStringUnicode(a, <<>>)]
    /\ UNCHANGED <<a, b, c, caseSensitive, maxNumericLength, data>>
    /\ CacheUnchanged

NextTokenize == CallTokenizers

SpecTokenize == InitTokenize /\ [][NextTokenize]_vars

----------------------------------------------------------------------------
(* SpecTokenCache: Put, Get, Size and Clear on one TokenCache.             *)

\* "", "a", "1", "a1".
CacheKeys == {<<>>, <<97>>, <<49>>, <<97, 49>>}

\* The cache under the operations is sorterCache, built by NewTokenCache with
\* a capacity of 0 (which NewTokenCache replaces by its default) to CacheCap.
InitTokenCache ==
    /\ a = <<>>
    /\ b = <<>>
    /\ c = <<>>
    /\ caseSensitive = TRUE
    /\ maxNumericLength = DefaultExternalSortKeyConfig.MaxNumericLength
    /\ data = NilSlice
    /\ op = "start"
    /\ ret = [none |-> TRUE]
    /\ globalCache = NewTokenCache(2000)
    /\ cacheHits = 0
    /\ cacheMisses = 0
    /\ globalCacheDisabled = FALSE
    /\ sorterCache \in {NewTokenCache(n) : n \in 0..CacheCap}
    /\ procs = IdleProcs
    /\ MemoryIdle

\* cache.Put(s, tokens) with the tokens of s or with a nil slice.
CachePut ==
    /\ \E s \in CacheKeys :
          \E tokens \in {NilSlice, Slice(parseStringOptimized(s))} :
              /\ sorterCache' = TokenCachePut(sorterCache, s, tokens)
              /\ ret' = [before |-> sorterCache, key |-> s, result |-> NilSlice]
    /\ op' = "Put"
    /\ UNCHANGED <<a, b, c, caseSensitive, maxNumericLength, data, globalCache,
                   cacheHits, cacheMisses, globalCacheDisabled,
                   procs, heap, pool, mu, held>>

CacheGet ==
    /\ \E s \in CacheKeys :
          ret' = [before |-> sorterCache, key |-> s,
                  result |-> TokenCacheGet(sorterCache, s)]
    /\ op' = "Get"
    /\ UNCHANGED <<a, b, c, caseSensitive, maxNumericLength, data, globalCache,
                   cacheHits, cacheMisses, globalCacheDisabled, sorterCache,
                   procs, heap, pool, mu, held>>

CacheSize ==
    /\ ret' = [before |-> sorterCache, key |-> <<>>,
               result |-> TokenCacheSize(sorterCache)]
    /\ op' = "Size"
    /\ UNCHANGED <<a, b, c, caseSensitive, maxNumericLength, data, globalCache,
                   cacheHits, cacheMisses, globalCacheDisabled, sorterCache,
                   procs, heap, pool, mu, held>>

CacheClear ==
    /\ sorterCache' = TokenCacheClear(sorterCache)
    /\ ret' = [before |-> sorterCache, key |-> <<>>, result |-> NilSlice]
    /\ op' = "Clear"
    /\ UNCHANGED <<a, b, c, caseSensitive, maxNumericLength, data, globalCache,
                   cacheHits, cacheMisses, globalCacheDisabled,
                   procs, heap, pool, mu, held>>

NextTokenCache ==
    \/ CachePut
    \/ CacheGet
    \/ CacheSize
    \/ CacheClear

SpecTokenCache == InitTokenCache /\ [][NextTokenCache]_vars

----------------------------------------------------------------------------
(* SpecIsolation: a caller of one TokenCache that keeps the slices it      *)
(* passes to Put and receives from Get, and writes into them.  The entries *)
(* of sorterCache are slices here, with their arrays in heap.              *)

\* "a", "a1".
IsolationKeys == {<<97>>, <<97, 49>>}

\* The token a caller overwrites an element with: Numeric "9".
WrittenToken == Token(NumericToken, <<57>>)

InitIsolation ==
    /\ a = <<>>
    /\ b = <<>>
    /\ c = <<>>
    /\ caseSensitive = TRUE
    /\ maxNumericLength = DefaultExternalSortKeyConfig.MaxNumericLength
    /\ data = NilSlice
    /\ op = "start"
    /\ ret = [none |-> TRUE]
    /\ globalCache = NewTokenCache(2000)
    /\ cacheHits = 0
    /\ cacheMisses = 0
    /\ globalCacheDisabled = FALSE
    /\ sorterCache \in {NewTokenCache(n) : n \in 1..CacheCap}
    /\ procs = IdleProcs
    /\ MemoryIdle

IsolationFrame ==
    UNCHANGED <<a, b, c, caseSensitive, maxNumericLength, data, globalCache,
                cacheHits, cacheMisses, globalCacheDisabled, procs, pool, mu>>

\* tokens := parseStringOptimized(s): the caller holds a new slice.
CallerParse ==
    /\ Len(heap) < MaxArrays
    /\ \E s \in IsolationKeys :
          \E r \in {newTokens(heap, parseStringOptimized(s))} :
              /\ heap' = r.heap
              /\ held' = held \cup {r.slice}
              /\ ret' = [before |-> CacheView(heap, sorterCache), key |-> s,
                         result |-> r.slice, stored |-> <<>>]
    /\ op' = "parse"
    /\ UNCHANGED sorterCache
    /\ IsolationFrame

\* cache.Put(s, tokens) with a slice the caller holds, or with nil.
CallerPut ==
    /\ Len(heap) < MaxArrays
    /\ \E s \in IsolationKeys :
          \E tokens \in held \cup {NilHeader} :
              \E r \in {Put(heap, sorterCache, s, tokens)} :
                  /\ heap' = r.heap
                  /\ sorterCache' = r.tc
                  /\ ret' = [before |-> CacheView(heap, sorterCache), key |-> s,
                             result |-> tokens, stored |-> Elems(heap, tokens)]
    /\ op' = "Put"
    /\ UNCHANGED held
    /\ IsolationFrame

\* tokens := cache.Get(s): the caller holds what Get returned.
CallerGet ==
    /\ Len(heap) < MaxArrays
    /\ \E s \in IsolationKeys :
          \E r \in {Get(heap, sorterCache, s)} :
              /\ heap' = r.heap
              /\ held' = IF r.slice.nil THEN held ELSE held \cup {r.slice}
              /\ ret' = [before |-> CacheView(heap, sorterCache), key |-> s,
                         result |-> r.slice, stored |-> <<>>]
    /\ op' = "Get"
    /\ UNCHANGED sorterCache
    /\ IsolationFrame

\* tokens[i] = Token{NumericToken, "9"} on a slice the caller holds.
CallerWrite ==
    /\ \E tokens \in held :
          \E i \in 1..tokens.len :
              /\ heap' = [heap EXCEPT ![tokens.ptr][i] = WrittenToken]
              /\ ret' = [before |-> CacheView(heap, sorterCache), key |-> <<>>,
                         result |-> tokens, stored |-> Elems(heap, tokens)]
    /\ op' = "Write"
    /\ UNCHANGED <<sorterCache, held>>
    /\ IsolationFrame

NextIsolation ==
    \/ CallerParse
    \/ CallerPut
    \/ CallerGet
    \/ CallerWrite

SpecIsolation == InitIsolation /\ [][NextIsolation]_vars

----------------------------------------------------------------------------
(* SpecLocking: goroutines calling Get, Put, Size and Clear on one         *)
(* TokenCache, sorterCache, each call taken statement by statement: the    *)
(* lock, the body, the deferred unlock.  mu is the cache's sync.RWMutex.   *)

\* mu.RLock() returns once no writer holds the mutex.
canRLock(m) == m.writer = 0

\* mu.Lock() returning as mu.RLock() does, whatever readers hold the mutex.
canLock_AsRLock(m) == canRLock(m)

\* mu.Lock() returns once no reader and no writer holds the mutex.
canLock(m) == m.writer = 0 /\ m.readers = {}

RLock(m, p) == [m EXCEPT !.readers = @ \cup {p}]

RUnlock(m, p) == [m EXCEPT !.readers = @ \ {p}]

Lock(m, p) == [m EXCEPT !.writer = p]

Unlock(m, p) == [m EXCEPT !.writer = 0]

\* "a", "1".
LockKeys == {<<97>>, <<49>>}

\* A cache of capacity n on which the keys K have been Put.
FilledCache(n, K) ==
    [NewTokenCache(n) EXCEPT !.cache = [k \in K |-> parseStringOptimized(k)]]

\* ret keeps two records of the run: the cache as the last writer left it,
\* and the largest number of goroutines that held the read lock together.
InitLocking ==
    /\ a = <<>>
    /\ b = <<>>
    /\ c = <<>>
    /\ caseSensitive = TRUE
    /\ maxNumericLength = DefaultExternalSortKeyConfig.MaxNumericLength
    /\ data = NilSlice
    /\ op = "start"
    /\ globalCache = NewTokenCache(2000)
    /\ cacheHits = 0
    /\ cacheMisses = 0
    /\ globalCacheDisabled = FALSE
    /\ sorterCache \in {FilledCache(n, K) : n \in 1..CacheCap, K \in SUBSET LockKeys}
    /\ Cardinality(DOMAIN sorterCache.cache) <= sorterCache.maxSize
    /\ ret = [committed |-> sorterCache, readers |-> 0]
    /\ procs = IdleProcs
    /\ MemoryIdle

LockingFrame ==
    UNCHANGED <<a, b, c, caseSensitive, maxNumericLength, data, op, globalCache,
                cacheHits, cacheMisses, globalCacheDisabled, heap, pool, held>>

\* Goroutine p calls Get(s), Put(s, tokens of s), Size() or Clear().
LockingCall(p) ==
    /\ procs[p].pc = "idle"
    /\ TotalCalls < MaxOps
    /\ \E s \in LockKeys :
          \E pc \in {"Get.RLock", "Size.RLock", "Put.Lock", "Clear.Lock"} :
              procs' = [procs EXCEPT ![p] =
                           [IdleProc EXCEPT !.pc = pc, !.x = s,
                                            !.tokensA = parseStringOptimized(s),
                                            !.calls = procs[p].calls + 1]]
    /\ UNCHANGED <<sorterCache, mu>>
    /\ UNCHANGED ret
    /\ LockingFrame

\* tc.mu.RLock() of Get and of Size.
LockingRLock(p) ==
    /\ procs[p].pc \in {"Get.RLock", "Size.RLock"}
    /\ canRLock(mu)
    /\ mu' = RLock(mu, p)
    /\ ret' = [ret EXCEPT !.readers = IF Cardinality(mu'.readers) > @
                                       THEN Cardinality(mu'.readers) ELSE @]
    /\ procs' = [procs EXCEPT ![p].pc = IF @ = "Get.RLock" THEN "Get.body" ELSE "Size.body"]
    /\ UNCHANGED sorterCache
    /\ LockingFrame

\* tc.mu.Lock() of Put and of Clear.
LockingLock(p) ==
    /\ procs[p].pc \in {"Put.Lock", "Clear.Lock"}
    /\ canLock(mu)
    /\ mu' = Lock(mu, p)
    /\ procs' = [procs EXCEPT ![p].pc = IF @ = "Put.Lock" THEN "Put.evict" ELSE "Clear.body"]
    /\ UNCHANGED sorterCache
    /\ UNCHANGED ret
    /\ LockingFrame

\* The body of Get: the lookup and the copy; reg keeps the size it saw.
LockingGet(p) ==
    /\ procs[p].pc = "Get.body"
    /\ procs' = [procs EXCEPT ![p] =
                    [@ EXCEPT !.pc = "Get.RUnlock",
                              !.hit = ~TokenCacheGet(sorterCache, procs[p].x).nil,
                              !.tokensB = TokenCacheGet(sorterCache, procs[p].x).elems,
                              !.reg = TokenCacheSize(sorterCache)]]
    /\ UNCHANGED <<sorterCache, mu>>
    /\ UNCHANGED ret
    /\ LockingFrame

\* The body of Size: len(tc.cache).
LockingSize(p) ==
    /\ procs[p].pc = "Size.body"
    /\ procs' = [procs EXCEPT ![p] =
                    [@ EXCEPT !.pc = "Size.RUnlock", !.reg = TokenCacheSize(sorterCache)]]
    /\ UNCHANGED <<sorterCache, mu>>
    /\ UNCHANGED ret
    /\ LockingFrame

\* Put: `if len(tc.cache) >= tc.maxSize { tc.cache = make(...) }`.
LockingPutEvict(p) ==
    /\ procs[p].pc = "Put.evict"
    /\ sorterCache' = IF TokenCacheSize(sorterCache) >= sorterCache.maxSize
                      THEN TokenCacheClear(sorterCache) ELSE sorterCache
    /\ procs' = [procs EXCEPT ![p] =
                    [@ EXCEPT !.pc = "Put.insert",
                              !.hit = TokenCacheSize(sorterCache) >= sorterCache.maxSize]]
    /\ UNCHANGED mu
    /\ UNCHANGED ret
    /\ LockingFrame

\* Put: `tc.cache[s] = cached`.
LockingPutInsert(p) ==
    /\ procs[p].pc = "Put.insert"
    /\ sorterCache' = [sorterCache EXCEPT !.cache =
                          [k \in (DOMAIN @) \cup {procs[p].x} |->
                              IF k = procs[p].x THEN procs[p].tokensA ELSE @[k]]]
    /\ procs' = [procs EXCEPT ![p].pc = "Put.Unlock"]
    /\ UNCHANGED mu
    /\ UNCHANGED ret
    /\ LockingFrame

\* The body of Clear.
LockingClear(p) ==
    /\ procs[p].pc = "Clear.body"
    /\ sorterCache' = TokenCacheClear(sorterCache)
    /\ procs' = [procs EXCEPT ![p].pc = "Clear.Unlock"]
    /\ UNCHANGED mu
    /\ UNCHANGED ret
    /\ LockingFrame

\* The deferred tc.mu.RUnlock(); the call returns.
LockingRUnlock(p) ==
    /\ procs[p].pc \in {"Get.RUnlock", "Size.RUnlock"}
    /\ mu' = RUnlock(mu, p)
    /\ procs' = [procs EXCEPT ![p] = [IdleProc EXCEPT !.calls = procs[p].calls]]
    /\ UNCHANGED sorterCache
    /\ UNCHANGED ret
    /\ LockingFrame

\* The deferred tc.mu.Unlock(); the call returns.
LockingUnlock(p) ==
    /\ procs[p].pc \in {"Put.Unlock", "Clear.Unlock"}
    /\ mu' = Unlock(mu, p)
    /\ ret' = [ret EXCEPT !.committed = sorterCache]
    /\ procs' = [procs EXCEPT ![p] = [IdleProc EXCEPT !.calls = procs[p].calls]]
    /\ UNCHANGED sorterCache
    /\ LockingFrame

NextLocking ==
    \E p \in Procs :
        \/ LockingCall(p)
        \/ LockingRLock(p)
        \/ LockingLock(p)
        \/ LockingGet(p)
        \/ LockingSize(p)
        \/ LockingPutEvict(p)
        \/ LockingPutInsert(p)
        \/ LockingClear(p)
        \/ LockingRUnlock(p)
        \/ LockingUnlock(p)

SpecLocking == InitLocking /\ [][NextLocking]_vars

----------------------------------------------------------------------------
(* SpecPool: goroutines inside parseStringPooled and parseWithPool, each   *)
(* on its own TokenPool, and a caller using a TokenPool of its own.  A     *)
(* sync.Pool hands out any slice it holds, or a new one.                   *)

\* "", "a", "a1" and "a1a1a1a1a", which has one token more than a new buffer
\* holds.
PoolStrings == {<<>>, <<97>>, <<97, 49>>, <<97, 49, 97, 49, 97, 49, 97, 49, 97>>}

\* globalTokenPool, the tokenPool of a PooledSorter, a pool of the caller.
PoolNames == {"global", "sorter", "user"}

\* The pool a pooled tokenizer takes its buffer from.
PoolOf(fn) == IF fn = "parseStringPooled" THEN "global" ELSE "sorter"

\* The tokens the tokenizer appends to its buffer, in order.
Scanned(s) ==
    IF isASCII(s) THEN parseStringASCII(s, <<>>) ELSE parseStringUnicode(s, <<>>)

\* A goroutine outside the pooled tokenizers.
PoolIdleProc ==
    [pc |-> "idle", fn |-> "", s |-> <<>>, orig |-> NilHeader, tokens |-> NilHeader,
     result |-> NilHeader, calls |-> 0]

InitPool ==
    /\ a = <<>>
    /\ b = <<>>
    /\ c = <<>>
    /\ caseSensitive = TRUE
    /\ maxNumericLength = DefaultExternalSortKeyConfig.MaxNumericLength
    /\ data = NilSlice
    /\ op = "start"
    /\ ret = [result |-> NilHeader, ops |-> 0, was |-> 0]
    /\ globalCache = NewTokenCache(2000)
    /\ cacheHits = 0
    /\ cacheMisses = 0
    /\ globalCacheDisabled = FALSE
    /\ sorterCache = NoCache
    /\ procs = [p \in Procs |-> PoolIdleProc]
    /\ heap = <<>>
    /\ pool = [n \in PoolNames |-> {}]
    /\ mu = [readers |-> {}, writer |-> 0]
    /\ held = {}

PoolFrame ==
    UNCHANGED <<a, b, c, caseSensitive, maxNumericLength, data, globalCache, cacheHits,
                cacheMisses, globalCacheDisabled, sorterCache, mu>>

\* pool.Get(): a slice of the pool, or a new one, cut to length 0.
TokenPoolGets(h, pl) ==
    {[heap |-> h, pool |-> pl \ {got}, slice |-> Cut(got), was |-> got.len] : got \in pl}
    \cup (IF Len(h) < MaxArrays
          THEN {[heap |-> NewBuffer(h).heap, pool |-> pl, slice |-> Cut(NewBuffer(h).slice),
                 was |-> 0]}
          ELSE {})

\* Goroutine p calls parseStringPooled(s) or parseWithPool(s).  The empty
\* string returns at once, with a result that has no storage.  Otherwise tokens := pool.Get(); defer pool.Put(tokens): the deferred Put
\* keeps the slice that Get returned.
PooledParseCall(p) ==
    /\ procs[p].pc = "idle"
    /\ TotalCalls < MaxCalls
    /\ \E fn \in {"parseStringPooled", "parseWithPool"}, s \in PoolStrings :
          IF Len(s) = 0
          THEN /\ procs' = [procs EXCEPT ![p] = [@ EXCEPT !.calls = @ + 1]]
               /\ UNCHANGED <<heap, pool, held>>
          ELSE /\ \E r \in TokenPoolGets(heap, pool[PoolOf(fn)]) :
                     /\ heap' = r.heap
                     /\ pool' = [pool EXCEPT ![PoolOf(fn)] = r.pool]
                     /\ procs' = [procs EXCEPT ![p] =
                                     [PoolIdleProc EXCEPT !.pc = "append", !.fn = fn, !.s = s,
                                                          !.orig = r.slice, !.tokens = r.slice,
                                                          !.calls = procs[p].calls + 1]]
               /\ UNCHANGED held
    /\ UNCHANGED <<op, ret>>
    /\ PoolFrame

\* tokens = parseStringASCII(s, tokens), or parseStringUnicode: the tokens of
\* s appended to the buffer, which grows into a new array when it is full.
PooledParseAppend(p) ==
    /\ procs[p].pc = "append"
    /\ Len(Scanned(procs[p].s)) <= procs[p].tokens.cap \/ Len(heap) < MaxArrays
    /\ \E r \in {appendAll(heap, procs[p].tokens, Scanned(procs[p].s), 1)} :
          /\ heap' = r.heap
          /\ procs' = [procs EXCEPT ![p] = [@ EXCEPT !.tokens = r.slice, !.pc = "copy"]]
    /\ UNCHANGED <<pool, held, op, ret>>
    /\ PoolFrame

\* result := make([]Token, len(tokens)); copy(result, tokens)
PooledParseCopy(p) ==
    /\ procs[p].pc = "copy"
    /\ Len(heap) < MaxArrays
    /\ \E r \in {copyTokens(heap, procs[p].tokens)} :
          /\ heap' = r.heap
          /\ procs' = [procs EXCEPT ![p] = [@ EXCEPT !.pc = "put", !.result = r.slice]]
    /\ UNCHANGED <<pool, held, op, ret>>
    /\ PoolFrame

\* return result: the deferred pool.Put(tokens) runs with the slice that Get
\* returned, and the caller holds the result.
PooledParseReturn(p) ==
    /\ procs[p].pc = "put"
    /\ pool' = [pool EXCEPT ![PoolOf(procs[p].fn)] = TokenPoolPut(@, procs[p].orig)]
    /\ held' = held \cup {[s |-> procs[p].s, buf |-> procs[p].orig.ptr,
                           slice |-> procs[p].result]}
    /\ procs' = [procs EXCEPT ![p] = [PoolIdleProc EXCEPT !.calls = procs[p].calls]]
    /\ UNCHANGED <<heap, op, ret>>
    /\ PoolFrame

\* tokens := pool.Get() on the caller's pool.
UserPoolGet ==
    /\ ret.ops < MaxCalls
    /\ \E r \in TokenPoolGets(heap, pool["user"]) :
          /\ heap' = r.heap
          /\ pool' = [pool EXCEPT !["user"] = r.pool]
          /\ ret' = [result |-> r.slice, ops |-> ret.ops + 1, was |-> r.was]
    /\ op' = "Get"
    /\ UNCHANGED <<procs, held>>
    /\ PoolFrame

\* tokens = append(tokens, Token{...}); pool.Put(tokens) with the slice that
\* Get returned.
UserPoolPutBack ==
    /\ ret.ops < MaxCalls
    /\ op = "Get"
    /\ \E r \in {append(heap, ret.result, Token(AlphaToken, <<116>>))} :
          /\ heap' = r.heap
          /\ pool' = [pool EXCEPT !["user"] = TokenPoolPut(@, r.slice)]
          /\ ret' = [result |-> r.slice, ops |-> ret.ops + 1, was |-> 0]
    /\ op' = "Put"
    /\ UNCHANGED <<procs, held>>
    /\ PoolFrame

\* pool.Put(tokens) with a slice the caller made: one element, capacity 32
\* or 33.
UserPoolPut ==
    /\ ret.ops < MaxCalls
    /\ Len(heap) < MaxArrays
    /\ \E cap \in {32, 33} :
          \E r \in {make(heap, 1, cap)} :
              /\ heap' = r.heap
              /\ pool' = [pool EXCEPT !["user"] = TokenPoolPut(@, r.slice)]
              /\ ret' = [result |-> r.slice, ops |-> ret.ops + 1, was |-> 0]
    /\ op' = "Put"
    /\ UNCHANGED <<procs, held>>
    /\ PoolFrame

NextPool ==
    \/ \E p \in Procs :
          \/ PooledParseCall(p)
          \/ PooledParseAppend(p)
          \/ PooledParseCopy(p)
          \/ PooledParseReturn(p)
    \/ UserPoolGet
    \/ UserPoolPutBack
    \/ UserPoolPut

SpecPool == InitPool /\ [][NextPool]_vars

----------------------------------------------------------------------------
(* SpecConcurrent: goroutines inside CompareOptimized at the same time,    *)
(* on the cached path.  TokenCache.Get and TokenCache.Put are one step      *)
(* each, as the cache's mutex makes them; cacheHits++ and cacheMisses++     *)
(* run under no lock and are a load followed by a store.                    *)

\* 10^19 and "a" 10^19: strings of ten bytes or more.
LongStrings == {BigDigits, <<97>> \o BigDigits}

InitConcurrent ==
    /\ a = <<>>
    /\ b = <<>>
    /\ c = <<>>
    /\ caseSensitive \in BOOLEAN
    /\ maxNumericLength = DefaultExternalSortKeyConfig.MaxNumericLength
    /\ data = NilSlice
    /\ op = "start"
    /\ ret = [none |-> TRUE]
    /\ CacheIdle

ConcurrentFrame ==
    UNCHANGED <<a, b, c, caseSensitive, maxNumericLength, data, op, ret,
                globalCacheDisabled, sorterCache, heap, pool, mu, held>>

\* The string the goroutine is looking up: its first or second argument.
ArgOf(pr) == IF pr.arg = 1 THEN pr.x ELSE pr.y

\* Goroutine p enters CompareOptimized(x, y) with x # y, both long, the cache
\* enabled: it passes the three early returns and reaches globalCache.Get(a).
ProcCall(p) ==
    /\ procs[p].pc = "idle"
    /\ TotalCalls < MaxCalls
    /\ ~globalCacheDisabled
    /\ \E x \in LongStrings, y \in LongStrings :
          /\ x # y
          /\ ~(adaptiveCachingEnabled /\ Len(x) < 10 /\ Len(y) < 10)
          /\ procs' = [procs EXCEPT ![p] =
                          [pc |-> "get", x |-> x, y |-> y, arg |-> 1, hit |-> FALSE,
                           reg |-> 0, tokensA |-> <<>>, tokensB |-> <<>>,
                           result |-> 0, calls |-> procs[p].calls + 1]]
    /\ UNCHANGED <<globalCache, cacheHits, cacheMisses>>
    /\ ConcurrentFrame

\* tokens := globalCache.Get(s)
ProcGet(p) ==
    /\ procs[p].pc = "get"
    /\ \E got \in {TokenCacheGet(globalCache, ArgOf(procs[p]))} :
          procs' = [procs EXCEPT ![p] =
                       IF got.nil
                       THEN [@ EXCEPT !.pc = "put", !.hit = FALSE]
                       ELSE IF @.arg = 1
                       THEN [@ EXCEPT !.pc = "load", !.hit = TRUE, !.tokensA = got.elems]
                       ELSE [@ EXCEPT !.pc = "load", !.hit = TRUE, !.tokensB = got.elems]]
    /\ UNCHANGED <<globalCache, cacheHits, cacheMisses>>
    /\ ConcurrentFrame

\* tokens = parseStringOptimized(s); globalCache.Put(s, tokens)
ProcPut(p) ==
    /\ procs[p].pc = "put"
    /\ \E tokens \in {parseStringOptimized(ArgOf(procs[p]))} :
          /\ globalCache' = TokenCachePut(globalCache, ArgOf(procs[p]), Slice(tokens))
          /\ procs' = [procs EXCEPT ![p] =
                          IF @.arg = 1
                          THEN [@ EXCEPT !.pc = "load", !.tokensA = tokens]
                          ELSE [@ EXCEPT !.pc = "load", !.tokensB = tokens]]
    /\ UNCHANGED <<cacheHits, cacheMisses>>
    /\ ConcurrentFrame

\* The load of cacheHits++ or cacheMisses++.
ProcLoad(p) ==
    /\ procs[p].pc = "load"
    /\ procs' = [procs EXCEPT ![p] =
                    [@ EXCEPT !.pc = "store",
                              !.reg = IF procs[p].hit THEN cacheHits ELSE cacheMisses]]
    /\ UNCHANGED <<globalCache, cacheHits, cacheMisses>>
    /\ ConcurrentFrame

\* The store of cacheHits++ or cacheMisses++; after the second one the token
\* loop runs on the goroutine's own slices and the call returns.
ProcStore(p) ==
    /\ procs[p].pc = "store"
    /\ IF procs[p].hit
       THEN cacheHits' = procs[p].reg + 1 /\ UNCHANGED cacheMisses
       ELSE cacheMisses' = procs[p].reg + 1 /\ UNCHANGED cacheHits
    /\ procs' = [procs EXCEPT ![p] =
                    IF @.arg = 1
                    THEN [@ EXCEPT !.pc = "get", !.arg = 2, !.reg = 0]
                    ELSE [@ EXCEPT !.pc = "idle", !.arg = 1, !.reg = 0,
                                   !.result = compareTokenLists(procs[p].tokensA, procs[p].tokensB,
                                                  buildConfig(caseSensitive), 1)]]
    /\ UNCHANGED globalCache
    /\ ConcurrentFrame

NextConcurrent ==
    \E p \in Procs :
        \/ ProcCall(p)
        \/ ProcGet(p)
        \/ ProcPut(p)
        \/ ProcLoad(p)
        \/ ProcStore(p)

SpecConcurrent == InitConcurrent /\ [][NextConcurrent]_vars

----------------------------------------------------------------------------
(* SpecConsistency: goroutines in CompareOptimized on the global cache and *)
(* goroutines in compareWithCache or comparePooled on one sorter cache, at *)
(* the same time.  The sorter cache is small, so that Put evicts.          *)

\* The pairs a sorter compares: ("", "a1"), ("a1", "A1") and ("A1", "").
SorterPairs == {<< <<>>, <<97, 49>> >>, << <<97, 49>>, <<65, 49>> >>, << <<65, 49>>, <<>> >>}

InitConsistency ==
    /\ a = <<>>
    /\ b = <<>>
    /\ c = <<>>
    /\ caseSensitive = TRUE
    /\ maxNumericLength = DefaultExternalSortKeyConfig.MaxNumericLength
    /\ data = NilSlice
    /\ op = "start"
    /\ ret = [none |-> TRUE]
    /\ globalCache = NewTokenCache(2000)
    /\ cacheHits = 0
    /\ cacheMisses = 0
    /\ globalCacheDisabled = FALSE
    /\ sorterCache \in {NewTokenCache(n) : n \in 1..CacheCap}
    /\ procs = IdleProcs
    /\ MemoryIdle

SorterFrame ==
    UNCHANGED <<a, b, c, caseSensitive, maxNumericLength, data, op, ret, globalCache,
                cacheHits, cacheMisses, globalCacheDisabled, heap, pool, mu, held>>

\* The goroutine has its tokens for the string it was looking up: it goes on
\* to its second string, or to the token loop.
SorterGot(pr, get, tokens) ==
    IF pr.arg = 1
    THEN [pr EXCEPT !.pc = get, !.arg = 2, !.tokensA = tokens.elems]
    ELSE [pr EXCEPT !.pc = "sorter.loop", !.tokensB = tokens.elems]

\* Goroutine p enters compareWithCache(x, y) with x # y.
CachedCall(p) ==
    /\ procs[p].pc = "idle"
    /\ TotalCalls < MaxCalls
    /\ \E xy \in SorterPairs :
          /\ xy[1] # xy[2]
          /\ procs' = [procs EXCEPT ![p] =
                          [pc |-> "cached.get", x |-> xy[1], y |-> xy[2], arg |-> 1,
                           hit |-> FALSE, reg |-> 0, tokensA |-> <<>>, tokensB |-> <<>>,
                           result |-> 0, calls |-> procs[p].calls + 1]]
    /\ UNCHANGED sorterCache
    /\ SorterFrame

\* tokens := cs.cache.Get(s)
CachedGet(p) ==
    /\ procs[p].pc = "cached.get"
    /\ \E got \in {TokenCacheGet(sorterCache, ArgOf(procs[p]))} :
          procs' = [procs EXCEPT ![p] =
                       IF got.nil
                       THEN [@ EXCEPT !.pc = "cached.put", !.hit = FALSE]
                       ELSE SorterGot([@ EXCEPT !.hit = TRUE], "cached.get", got)]
    /\ UNCHANGED sorterCache
    /\ SorterFrame

\* tokens = parseStringOptimized(s); cs.cache.Put(s, tokens)
CachedPut(p) ==
    /\ procs[p].pc = "cached.put"
    /\ \E tokens \in {Slice(parseStringOptimized(ArgOf(procs[p])))} :
          /\ sorterCache' = TokenCachePut(sorterCache, ArgOf(procs[p]), tokens)
          /\ procs' = [procs EXCEPT ![p] = SorterGot(@, "cached.get", tokens)]
    /\ SorterFrame

\* Goroutine p enters comparePooled(x, y) with x # y.
PooledCall(p) ==
    /\ procs[p].pc = "idle"
    /\ TotalCalls < MaxCalls
    /\ \E xy \in SorterPairs :
          /\ xy[1] # xy[2]
          /\ procs' = [procs EXCEPT ![p] =
                          [pc |-> "pooled.get", x |-> xy[1], y |-> xy[2], arg |-> 1,
                           hit |-> FALSE, reg |-> 0, tokensA |-> <<>>, tokensB |-> <<>>,
                           result |-> 0, calls |-> procs[p].calls + 1]]
    /\ UNCHANGED sorterCache
    /\ SorterFrame

\* tokens := ps.cache.Get(s)
PooledGet(p) ==
    /\ procs[p].pc = "pooled.get"
    /\ \E got \in {TokenCacheGet(sorterCache, ArgOf(procs[p]))} :
          procs' = [procs EXCEPT ![p] =
                       IF got.nil
                       THEN [@ EXCEPT !.pc = "pooled.put", !.hit = FALSE]
                       ELSE SorterGot([@ EXCEPT !.hit = TRUE], "pooled.get", got)]
    /\ UNCHANGED sorterCache
    /\ SorterFrame

\* tokens = ps.parseWithPool(s); ps.cache.Put(s, tokens)
PooledPut(p) ==
    /\ procs[p].pc = "pooled.put"
    /\ \E tokens \in {parseWithPool(ArgOf(procs[p]))} :
          /\ sorterCache' = TokenCachePut(sorterCache, ArgOf(procs[p]), tokens)
          /\ procs' = [procs EXCEPT ![p] = SorterGot(@, "pooled.get", tokens)]
    /\ SorterFrame

\* The token loop of compareWithCache or comparePooled, on the goroutine's
\* own slices, and the return.
SorterReturn(p) ==
    /\ procs[p].pc = "sorter.loop"
    /\ procs' = [procs EXCEPT ![p] =
                    [IdleProc EXCEPT !.calls = procs[p].calls,
                                     !.result = compareTokenLists(procs[p].tokensA,
                                                    procs[p].tokensB,
                                                    buildConfig(caseSensitive), 1)]]
    /\ UNCHANGED sorterCache
    /\ SorterFrame

NextConsistency ==
    \E p \in Procs :
        \/ ProcCall(p)
        \/ ProcGet(p)
        \/ ProcPut(p)
        \/ ProcLoad(p)
        \/ ProcStore(p)
        \/ CachedCall(p)
        \/ CachedGet(p)
        \/ CachedPut(p)
        \/ PooledCall(p)
        \/ PooledGet(p)
        \/ PooledPut(p)
        \/ SorterReturn(p)

SpecConsistency == InitConsistency /\ [][NextConsistency]_vars

----------------------------------------------------------------------------
(* SpecTriple: Compare applied to the three pairs of a triple of strings.  *)

InitTriple ==
    /\ a \in Strings
    /\ b \in Strings
    /\ c \in Strings
    /\ caseSensitive \in BOOLEAN
    /\ maxNumericLength = DefaultExternalSortKeyConfig.MaxNumericLength
    /\ data = NilSlice
    /\ op = "start"
    /\ ret = [none |-> TRUE]
    /\ CacheIdle

CallCompareTriple ==
    /\ op = "start"
    /\ op' = "Compare3"
    /\ ret' = [ab |-> Compare(a, b, caseSensitive),
               bc |-> Compare(b, c, caseSensitive),
               ac |-> Compare(a, c, caseSensitive)]
    /\ UNCHANGED <<a, b, c, caseSensitive, maxNumericLength, data>>
    /\ CacheUnchanged

NextTriple == CallCompareTriple

SpecTriple == InitTriple /\ [][NextTriple]_vars

----------------------------------------------------------------------------
(* What the claims speak of, said without the comparator.                  *)

\* A non-empty run of ASCII digits.
IsDigitRun(s) == Len(s) > 0 /\ \A i \in 1..Len(s) : s[i] >= 48 /\ s[i] <= 57

\* The order of the numeric values of two runs of ASCII digits.
DigitValueCmp(x, y) == NumCmp(StripZeros(x), StripZeros(y))

\* Every byte of s is below 0x80.
IsASCIIString(s) == \A i \in 1..Len(s) : s[i] < 128

IsASCIILetter(x) == (x >= 65 /\ x <= 90) \/ (x >= 97 /\ x <= 122)

\* x and y differ at most in the case of their ASCII letters.
DiffersOnlyInCase(x, y) ==
    /\ Len(x) = Len(y)
    /\ \A i \in 1..Len(x) :
          \/ x[i] = y[i]
          \/ IsASCIILetter(x[i]) /\ IsASCIILetter(y[i])
             /\ (x[i] - y[i] = 32 \/ y[i] - x[i] = 32)

StartsWithDigit(s) == Len(s) > 0 /\ s[1] >= 48 /\ s[1] <= 57

StartsWithNonDigit(s) == Len(s) > 0 /\ ~(s[1] >= 48 /\ s[1] <= 57)

\* y is x with one "0" put in front of a digit run x ends with:
\* x = p + d and y = p + "0" + d.
IsZeroInsert(x, y) ==
    \E i \in 0..(Len(x) - 1) :
        /\ IsDigitRun(SubSeq(x, i + 1, Len(x)))
        /\ y = SubSeq(x, 1, i) \o <<48>> \o SubSeq(x, i + 1, Len(x))

\* The token sequence tx is a proper prefix of the token sequence ty, token
\* by token equal under the configuration.
IsTokenPrefix(tx, ty, cs) ==
    /\ Len(tx) < Len(ty)
    /\ \A i \in 1..Len(tx) :
          compareTokensWithConfig(tx[i], ty[i], buildConfig(cs)) = 0

----------------------------------------------------------------------------
(* The claims.                                                             *)

\* C1: Compare is transitive: Compare(a,b) = -1 and Compare(b,c) = -1 give
\* Compare(a,c) = -1, for every three strings and either case setting,
\* digit runs too long for an int included.  Stated on the triples of ASCII
\* strings, where a digit run fails to parse only by being too long.
C1_Transitive ==
    (op = "Compare3" /\ IsASCIIString(a) /\ IsASCIIString(b) /\ IsASCIIString(c))
        => (ret.ab = -1 /\ ret.bc = -1 => ret.ac = -1)

\* C2: Compare is antisymmetric: its result is -1, 0 or 1, Compare(a,b) =
\* -Compare(b,a) and Compare(a,a) = 0, so that exactly one of a<b, a=b, b<a
\* holds.
C2_Antisymmetric ==
    op = "Compare" =>
        /\ ret.ab \in {-1, 0, 1}
        /\ ret.ba \in {-1, 0, 1}
        /\ ret.ab = -ret.ba
        /\ ret.aa = 0
        /\ Cardinality({x \in {"lt", "eq", "gt"} :
                \/ x = "lt" /\ ret.ab = -1
                \/ x = "eq" /\ ret.ab = 0
                \/ x = "gt" /\ ret.ba = -1}) = 1

C2_Witness ==
    /\ op = "Compare"
    /\ ~caseSensitive
    /\ a # b
    /\ ret.ab = 1
    /\ ret.ba = -1

\* C3: the sort key preserves the order: under one valid configuration
\* (pad width 1..50), ToNaturalSortKey(a) is byte-wise less than
\* ToNaturalSortKey(b) if and only if Compare(a,b) = -1.
C3_KeyOrder ==
    (op = "ToNaturalSortKey" /\ maxNumericLength >= 1 /\ maxNumericLength <= 50)
        => ((StrCmp(ret.ka, ret.kb) = -1) <=> (ret.ab = -1))

\* C4: cache equivalence: in every state of the global cache (empty, warm,
\* cleared, disabled) CompareOptimized(a, b) returns what Compare(a, b)
\* returns under the same case sensitivity.
C4_CacheEquivalence ==
    op = "CompareOptimized" => ret.result = Compare(a, b, caseSensitive)

\* C5: numeric tokens compare by magnitude whatever their length: a numeric
\* token of smaller value compares -1, values above 64 bits included.
C5_NumericMagnitude ==
    (/\ op = "compareTokens"
     /\ IsDigitRun(a) /\ IsDigitRun(b)
     /\ DigitValueCmp(a, b) = -1)
        => ret.ab = -1

\* C6: leading-zero tie-break: of two digit runs of the same value the one
\* with fewer digits compares Less, so Compare(p+d, p+"0"+d) = -1 for every
\* prefix p and digit run d; a smaller value still wins over length.
C6_LeadingZero ==
    op = "Compare" =>
        /\ IsZeroInsert(a, b) => ret.ab = -1
        /\ (IsDigitRun(a) /\ IsDigitRun(b) /\ DigitValueCmp(a, b) = 0
              /\ Len(a) < Len(b)) => ret.ab = -1
        /\ (IsDigitRun(a) /\ IsDigitRun(b) /\ DigitValueCmp(a, b) = -1
              /\ Len(a) > Len(b)) => ret.ab = -1

\* C7: kind precedence: when the first tokens of two strings differ in
\* kind, the string with the Numeric token is Less whatever the texts and
\* the case setting; a string starting with a digit sorts before any string
\* starting with a non-digit.
C7_KindPrecedence ==
    op = "Compare" =>
        /\ (a # <<>> /\ b # <<>>
              /\ ret.tokensA[1].Type # ret.tokensB[1].Type)
           => ret.ab = (IF ret.tokensA[1].Type = NumericToken THEN -1 ELSE 1)
        /\ (StartsWithDigit(a) /\ StartsWithNonDigit(b))
           => (ret.ab = -1 /\ ret.ba = 1)

C7_Witness ==
    /\ op = "Compare"
    /\ ~caseSensitive
    /\ StartsWithDigit(a)
    /\ b # <<>> /\ b[1] = 46
    /\ ret.ab = -1

\* C8: prefix rule: when the tokens of a are a proper prefix of the tokens
\* of b, pairwise Equal, Compare(a,b) = -1; the empty string sorts before
\* every non-empty string.
C8_PrefixRule ==
    op = "Compare" =>
        /\ IsTokenPrefix(ret.tokensA, ret.tokensB, caseSensitive)
           => (ret.ab = -1 /\ ret.ba = 1)
        /\ (a = <<>> /\ b # <<>>) => ret.ab = -1

C8_Witness ==
    /\ op = "Compare"
    /\ ~caseSensitive
    /\ a = <<65>>
    /\ b = <<97, 49>>
    /\ IsTokenPrefix(ret.tokensA, ret.tokensB, caseSensitive)
    /\ ret.ab = -1

Count(d, x) == Cardinality({i \in 1..Len(d) : d[i] = x})

IsPermutation(d, e) ==
    /\ Len(d) = Len(e)
    /\ \A i \in 1..Len(d) : Count(d, d[i]) = Count(e, d[i])

Zeros(k) == [i \in 1..k |-> 48]

\* What the encoder is to emit for one token under pad width n: a numeric
\* token of fewer than n characters padded with '0' to n characters, a longer
\* one as it is, an alpha token as it is or lower-cased.
ShapeOfToken(tok, cs, n) ==
    IF tok.Type = NumericToken
    THEN IF RuneCount(tok.Value) < n
         THEN Zeros(n - RuneCount(tok.Value)) \o tok.Value
         ELSE tok.Value
    ELSE IF cs THEN tok.Value ELSE ToLower(tok.Value)

RECURSIVE ShapeOfKey(_, _, _, _)
ShapeOfKey(tokens, cs, n, i) ==
    IF i > Len(tokens) THEN <<>>
    ELSE ShapeOfToken(tokens[i], cs, n) \o ShapeOfKey(tokens, cs, n, i + 1)

\* C11: encoder output shape: ToNaturalSortKey emits the tokens in input
\* order, each numeric token shorter than MaxNumericLength characters padded
\* with '0' to exactly MaxNumericLength characters, each longer one unchanged,
\* each alpha token verbatim or lower-cased; the empty input gives the empty
\* key.
C11_EncoderShape ==
    op = "ToNaturalSortKey" =>
        /\ ret.ka = ShapeOfKey(parseString(a), caseSensitive, maxNumericLength, 1)
        /\ a = <<>> => ret.ka = <<>>

\* C12: pad-width validation: with MaxNumericLength <= 0 or > 50,
\* ToNaturalSortKeyValidated returns a ValidationError on field
\* MaxNumericLength and an empty key, for every input string; with a width in
\* 1..50 it returns no error.
C12_PadWidthValidation ==
    op = "ToNaturalSortKeyValidated" =>
        IF maxNumericLength <= 0 \/ maxNumericLength > 50
        THEN /\ ~ret.err.nil
             /\ ret.err.Field = "MaxNumericLength"
             /\ ret.key = <<>>
        ELSE ret.err.nil

C14_ASCIIDigitsOnly ==
    op = "tokenize" =>
        \A tokens \in {ret.legacy, ret.optimized, ret.pooled} :
            \A i \in 1..Len(tokens) :
                tokens[i].Type = NumericToken => IsDigitRun(tokens[i].Value)

\* C17: tokenizer path equivalence: on a string of bytes below 0x80,
\* parseStringASCII and parseStringUnicode give the same token sequence.
C17_PathEquivalence ==
    (op = "tokenize" /\ IsASCIIString(a)) => ret.ascii = ret.unicode

\* An ASCII string of two tokens went through both paths.
C17_Witness ==
    /\ op = "tokenize"
    /\ IsASCIIString(a)
    /\ Len(ret.ascii) = 2
    /\ ret.ascii[1].Type = NumericToken
    /\ ret.unicode[2].Type = AlphaToken

\* C18: tokenizer variant equivalence: on every input string, ASCII or not,
\* parseString, parseStringOptimized and parseStringPooled return equal token
\* sequences.
C18_VariantEquivalence ==
    op = "tokenize" =>
        /\ ret.legacy = ret.optimized
        /\ ret.legacy = ret.pooled

\* The text of a token sequence: its token texts in order.
RECURSIVE TextOf(_, _)
TextOf(tokens, i) ==
    IF i > Len(tokens) THEN <<>> ELSE tokens[i].Value \o TextOf(tokens, i + 1)

\* A token sequence is well formed for the input s: no empty token, adjacent
\* tokens of different kinds, numeric tokens of digits only, alpha tokens
\* without a digit, and the texts in order make up s.
WellFormed(tokens, s) ==
    /\ \A i \in 1..Len(tokens) :
          /\ tokens[i].Value # <<>>
          /\ tokens[i].Type \in {AlphaToken, NumericToken}
          /\ tokens[i].Type = NumericToken => IsDigitRun(tokens[i].Value)
          /\ tokens[i].Type = AlphaToken =>
                \A k \in 1..Len(tokens[i].Value) : ~IsASCIIDigit(tokens[i].Value[k])
    /\ \A i \in 1..(Len(tokens) - 1) : tokens[i].Type # tokens[i + 1].Type
    /\ TextOf(tokens, 1) = s
    /\ s = <<>> => tokens = <<>>

\* C19: token sequence well-formedness: for every input string each
\* tokenizer returns a sequence with no empty token, adjacent tokens of
\* different kinds, digits only in Numeric tokens and no digit in Alpha
\* tokens, whose texts in order are the input; the empty input gives the
\* empty sequence.
C19_WellFormed ==
    op = "tokenize" =>
        /\ WellFormed(ret.legacy, a)
        /\ WellFormed(ret.optimized, a)
        /\ WellFormed(ret.pooled, a)
        /\ IsASCIIString(a) => WellFormed(ret.ascii, a)
        /\ WellFormed(ret.unicode, a)

C16_PreWarming ==
    /\ (op = "SortStrings" /\ Len(ret.before.elems) >= 2) =>
          TokenCacheSize(globalCache) > 0
    /\ (op = "SortStringsOptimized" /\ Len(ret.before.elems) >= 2
          /\ shouldUseCaching(ret.before.elems).value) =>
          TokenCacheSize(globalCache) > 0

\* C15: counter integrity under concurrency: when CompareOptimized calls
\* run concurrently on the cached path, no update of the hit and miss
\* counters is lost: once every call has returned, hits + misses is twice the
\* number of cached-path calls made.
C15_CounterIntegrity ==
    (\A p \in Procs : procs[p].pc = "idle") =>
        cacheHits + cacheMisses = 2 * TotalCalls

\* C21: cache copy isolation: a Get of an absent key returns nil; a Get of a
\* present key returns a sequence equal to the one stored; writing into a
\* slice returned by Get, or into the slice passed to Put after Put returned,
\* changes nothing of what a later Get returns for any key.
C21_CopyIsolation ==
    /\ op = "Get" =>
          /\ ret.key \notin DOMAIN ret.before => ret.result.nil
          /\ ret.key \in DOMAIN ret.before =>
                /\ ~ret.result.nil
                /\ Elems(heap, ret.result) = ret.before[ret.key]
          /\ CacheView(heap, sorterCache) = ret.before
    /\ op = "Put" =>
          /\ ret.key \in DOMAIN sorterCache.cache
          /\ CacheView(heap, sorterCache)[ret.key] = ret.stored
          /\ \A k \in DOMAIN sorterCache.cache :
                k # ret.key => CacheView(heap, sorterCache)[k] = ret.before[k]
    /\ op \in {"Write", "parse"} => CacheView(heap, sorterCache) = ret.before

\* A caller has written into a slice whose elements were those cached under
\* a key, and the cache still returns the elements it had.
C21_Witness ==
    /\ op = "Write"
    /\ \E k \in DOMAIN ret.before :
          /\ Len(ret.before[k]) > 0
          /\ ret.stored = ret.before[k]
          /\ Elems(heap, ret.result) # ret.before[k]
          /\ CacheView(heap, sorterCache)[k] = ret.before[k]

\* A goroutine between the return of mu.Lock() and the deferred mu.Unlock().
Writing(p) ==
    procs[p].pc \in {"Put.evict", "Put.insert", "Put.Unlock", "Clear.body", "Clear.Unlock"}

\* A goroutine between the return of mu.RLock() and the deferred mu.RUnlock().
Reading(p) ==
    procs[p].pc \in {"Get.body", "Get.RUnlock", "Size.body", "Size.RUnlock"}

\* C22: cache locking: under any interleaving of Get, Put, Size and Clear on
\* one TokenCache no two writers overlap and no reader overlaps a writer; what
\* a Get or a Size has read is the cache as the last writer left it, never the
\* cache between the clear and the insert of a Put; and the size never
\* exceeds maxSize.
C22_Locking ==
    /\ \A p \in Procs, q \in Procs :
          (p # q /\ Writing(p)) => (~Writing(q) /\ ~Reading(q))
    /\ \A p \in Procs :
          /\ procs[p].pc \in {"Get.RUnlock", "Size.RUnlock"} =>
                /\ procs[p].reg = TokenCacheSize(ret.committed)
                /\ procs[p].reg <= sorterCache.maxSize
          /\ procs[p].pc = "Get.RUnlock" =>
                /\ procs[p].hit = (procs[p].x \in DOMAIN ret.committed.cache)
                /\ procs[p].hit => procs[p].tokensB = ret.committed.cache[procs[p].x]
    /\ TokenCacheSize(sorterCache) <= sorterCache.maxSize

\* Two goroutines have held the read lock together, and now a Put that has
\* cleared the full cache has not inserted yet while a Get or a Size waits for
\* the lock.
C22_Witness ==
    /\ ret.readers >= 2
    /\ \E p \in Procs, q \in Procs :
          /\ procs[p].pc = "Put.insert"
          /\ procs[p].hit
          /\ TokenCacheSize(sorterCache) = 0
          /\ procs[q].pc \in {"Get.RLock", "Size.RLock"}

\* The number of strings among the first n of d that repeat an earlier one
\* of them, and the sum of the lengths of the first n.
SampledRepeats(d, n) ==
    Cardinality({i \in 1..n : \E k \in 1..n : k < i /\ d[k] = d[i]})

RECURSIVE SampledLength(_, _)
SampledLength(d, n) == IF n = 0 THEN 0 ELSE Len(d[n]) + SampledLength(d, n - 1)

\* C23: selection heuristic: shouldUseCaching(data) is true whenever
\* len(data) >= 300; on a non-empty batch of fewer than 300 strings it is
\* true exactly when, among the first n = min(len(data), 50) strings, the
\* fraction that repeat an earlier one exceeds 0.2 (repeats / n > 1/5) or the
\* average length exceeds 50 (sum of lengths / n > 50).
C23_SelectionHeuristic ==
    op = "shouldUseCaching" =>
        /\ ~ret.use.panic
        /\ LET d == data.elems
               n == Min(Len(d), 50)
           IN  IF Len(d) >= 300 THEN ret.use.value
               ELSE ret.use.value <=>
                        \/ 5 * SampledRepeats(d, n) > n
                        \/ SampledLength(d, n) > 50 * n

\* C24: short-string rule: with the cache enabled, a CompareOptimized call on
\* two different strings that both have fewer than 10 characters tokenizes
\* directly and leaves the global cache and the hit and miss counters as they
\* were; when one of the strings has 10 characters or more, both strings are
\* looked up in the global cache, each lookup counted as a hit or a miss.
C24_ShortStringRule ==
    (op = "CompareOptimized" /\ a # b /\ ~ret.before.disabled) =>
        IF RuneCount(a) < 10 /\ RuneCount(b) < 10
        THEN /\ globalCache = ret.before.cache
             /\ cacheHits = ret.before.hits
             /\ cacheMisses = ret.before.misses
        ELSE cacheHits + cacheMisses = ret.before.hits + ret.before.misses + 2

\* C25: a disabled cache is untouched: while the global cache is disabled, a
\* CompareOptimized or SortStringsOptimized call leaves the global cache and
\* the hit and miss counters as they were, whatever the lengths of the strings
\* and the size of the batch; with the cache enabled again, a call on
\* different strings of which one has 10 characters or more looks both up in
\* the global cache.
C25_DisabledUntouched ==
    /\ (op \in {"CompareOptimized", "SortStringsOptimized"} /\ ret.before.disabled) =>
          /\ globalCache = ret.before.cache
          /\ cacheHits = ret.before.hits
          /\ cacheMisses = ret.before.misses
    /\ (op = "CompareOptimized" /\ ~ret.before.disabled /\ a # b
          /\ (RuneCount(a) >= 10 \/ RuneCount(b) >= 10)) =>
          /\ cacheHits + cacheMisses = ret.before.hits + ret.before.misses + 2
          /\ b \in DOMAIN globalCache.cache

\* A call on a string of ten characters that the global cache holds, made
\* while the cache is disabled.
C25_Witness ==
    /\ op = "CompareOptimized"
    /\ ret.before.disabled
    /\ a # b
    /\ RuneCount(a) >= 10
    /\ a \in DOMAIN ret.before.cache.cache
    /\ ret.before.hits + ret.before.misses > 0

\* The keys of a cache after the lookup of s: s is added on a miss, alone if
\* the cache was full.
KeysAfterLookup(keys, maxSize, s) ==
    IF s \in keys THEN keys
    ELSE IF Cardinality(keys) >= maxSize THEN {s}
    ELSE keys \cup {s}

\* C26: cached-path accounting: a CompareOptimized call that takes the cached
\* path adds exactly 2 to hits + misses, counting a hit for a string exactly
\* when the string was in the global cache at its lookup (the lookup of a
\* first, then that of b) and a miss otherwise; on return the global cache is
\* not empty and holds b; a call with a = b changes neither the cache nor the
\* counters.
C26_CachedAccounting ==
    /\ (op = "CompareOptimized" /\ ret.path = "cached") =>
          LET keys  == DOMAIN ret.before.cache.cache
              hitA  == IF a \in keys THEN 1 ELSE 0
              hitB  == IF b \in KeysAfterLookup(keys, ret.before.cache.maxSize, a)
                       THEN 1 ELSE 0
          IN  /\ cacheHits = ret.before.hits + hitA + hitB
              /\ cacheMisses = ret.before.misses + (1 - hitA) + (1 - hitB)
              /\ TokenCacheSize(globalCache) > 0
              /\ b \in DOMAIN globalCache.cache
    /\ (op = "CompareOptimized" /\ a = b) =>
          /\ globalCache = ret.before.cache
          /\ cacheHits = ret.before.hits
          /\ cacheMisses = ret.before.misses

\* A cached-path call on a full cache that holds b and not a: the insertion
\* of a clears the cache, and b, looked up after it, is a miss as well.
C26_Witness ==
    /\ op = "CompareOptimized"
    /\ ret.path = "cached"
    /\ TokenCacheSize(ret.before.cache) = ret.before.cache.maxSize
    /\ b \in DOMAIN ret.before.cache.cache
    /\ a \notin DOMAIN ret.before.cache.cache
    /\ cacheMisses = ret.before.misses + 2
    /\ b \in DOMAIN globalCache.cache

\* The goroutine holds the tokens it looked up for its first string.
HasTokensA(pr) ==
    pr.calls > 0 /\ (pr.arg = 2 \/ pr.pc \in {"load", "store", "idle"})

\* The goroutine holds the tokens it looked up for its second string.
HasTokensB(pr) ==
    pr.calls > 0 /\ (pr.pc \in {"idle", "sorter.loop"}
                        \/ (pr.arg = 2 /\ pr.pc \in {"load", "store"}))

\* The token sequence of every string that is compared in SpecConsistency.
TokensOf ==
    [s \in LongStrings \cup {xy[1] : xy \in SorterPairs} \cup {xy[2] : xy \in SorterPairs}
        |-> parseStringOptimized(s)]

\* C27: cache content consistency: under any interleaving of CompareOptimized
\* calls and sorter comparisons, every entry of the global cache and of the
\* sorter's cache maps its key to the token sequence of that key, and the
\* tokens a goroutine got from a lookup are those of the string it looked up.
C27_CacheConsistency ==
    /\ \A k \in DOMAIN globalCache.cache : globalCache.cache[k] = TokensOf[k]
    /\ \A k \in DOMAIN sorterCache.cache : sorterCache.cache[k] = TokensOf[k]
    /\ \A p \in Procs :
          /\ HasTokensA(procs[p]) => procs[p].tokensA = TokensOf[procs[p].x]
          /\ HasTokensB(procs[p]) => procs[p].tokensB = TokensOf[procs[p].y]

\* Two goroutines both missed on the same string and both inserted it into a
\* sorter cache of one entry, the second insert evicting the first.
C27_Witness ==
    \E p \in Procs, q \in Procs :
        /\ p # q
        /\ procs[p].x = procs[q].x
        /\ procs[p].pc = "cached.get" /\ procs[p].arg = 2 /\ ~procs[p].hit
        /\ procs[q].pc = "pooled.get" /\ procs[q].arg = 2 /\ ~procs[q].hit
        /\ sorterCache.maxSize = 1
        /\ procs[p].x \in DOMAIN sorterCache.cache

\* The token sequence of every string of PoolStrings.
ScannedOf == [s \in PoolStrings |-> Scanned(s)]

\* The buffers goroutine p has taken from a pool and not yet put back.
TakenBy(p) ==
    IF procs[p].pc \in {"append", "copy", "put"} THEN {procs[p].orig, procs[p].tokens}
    ELSE {}

\* C28: pool hygiene: TokenPool.Get returns a slice of length 0 whatever was
\* put back; no pool holds a slice of capacity above 32; a token sequence
\* returned by parseStringPooled or parseWithPool shares no storage with a
\* buffer that is in a pool or in use by a pooled tokenizer, and keeps the
\* tokens of its string whatever is parsed later or at the same time.
C28_PoolHygiene ==
    /\ op = "Get" => ret.result.len = 0
    /\ \A p \in Procs :
          procs[p].pc \in {"append", "copy", "put"} => procs[p].orig.len = 0
    /\ \A n \in PoolNames : \A h \in pool[n] : h.cap <= 32
    /\ \A r \in held :
          /\ Elems(heap, r.slice) = ScannedOf[r.s]
          /\ \A n \in PoolNames : \A h \in pool[n] : ~Shares(r.slice, h)
          /\ \A p \in Procs : \A h \in TakenBy(p) : ~Shares(r.slice, h)

\* The caller's Get has returned, with length 0, a slice that was put back
\* with one element; and a pooled tokenizer has filled, for another string,
\* the buffer that an earlier returned sequence was parsed in.
C28_Witness ==
    /\ op = "Get"
    /\ ret.was = 1
    /\ ret.result.len = 0
    /\ \E r \in held, p \in Procs :
          /\ Len(r.s) > 0
          /\ procs[p].pc = "copy"
          /\ procs[p].s # r.s
          /\ procs[p].orig.ptr = r.buf

\* C29: equality is identity under case-sensitive comparison: with
\* case_sensitive = true, Compare(a, b) = 0 if and only if a and b are the
\* same string.
C29_EqualityIsIdentity ==
    (op = "Compare" /\ caseSensitive) => (ret.ab = 0 <=> a = b)

\* C30: no division by zero in batch selection: SortStringsOptimized returns
\* without a panic for every batch; a nil, empty or one-element batch is left
\* as it was; shouldUseCaching is called only with at least 2 strings, so the
\* sample size it divides by is not zero.
C30_NoDivisionByZero ==
    op = "SortStringsOptimized" =>
        /\ ~ret.panic
        /\ ret.sampled = -1 \/ ret.sampled >= 2
        /\ Len(ret.input.elems) <= 1 => (data = ret.input /\ ret.sampled = -1)

\* SortStringsOptimized has returned from an empty, non-nil batch with the
\* cache enabled, the batch as it was.
C30_Witness ==
    /\ op = "SortStringsOptimized"
    /\ ret.input = Slice(<<>>)
    /\ ~ret.before.disabled
    /\ data = Slice(<<>>)

====
